---------------------------- MODULE Spec2Model ----------------------------
(***************************************************************************)
(* Entry-decision engine (entry.py, kelly.py, fees.py) and the session     *)
(* order gate (kalshi_client.py) of the stuart trading bot.                *)
(*                                                                         *)
(* Number representation.  Python floats are carried as integers:          *)
(*   - "fixed" values: value * 10^8 (probabilities, fractions, odds, z);   *)
(*     round(x, 4) is rounding to a multiple of 10^4 in this scale;        *)
(*   - p_current, prices, min_edge, min_survival as inputs: hundredths;    *)
(*   - money (bankroll, dollars, fee, ev): cents;                          *)
(*   - score: tenths of a point (round(x, 1)).                             *)
(* TLC integers are 32 bit, so products are formed limb by limb (Mul) and  *)
(* quotients digit by digit (Div); quotients saturate at 20.0, beyond      *)
(* which every exponential used here is 0 at this resolution.  exp and     *)
(* the normal CDF are evaluated by series to about 1e-7, so a value that   *)
(* the code rounds to 4 decimals can differ from the model's by one unit   *)
(* of the last decimal when it falls on a rounding boundary; over the      *)
(* arguments of EntryArgs this touches kelly_multiplier at one price only, *)
(* and the unrounded f_star of a Kelly result without edge (4e-8).         *)
(* Where IEEE-754 rounding of decimal inputs flips a comparison or a       *)
(* truncation of the code, the flipped cases are listed (Float... sets).   *)
(***************************************************************************)
EXTENDS Integers, Sequences, FiniteSets, TLC

\* ------------------------------------------------------------------------
\* Fixed-point arithmetic standing for Python float arithmetic
\* ------------------------------------------------------------------------

One == 10^8            \* 1.0
Limb == 10^4
Cap == 20 * One        \* saturation of quotients

\* The element of a one-element set.  Only({e(v) : v \in {x}}) is e at the
\* value of x: x is evaluated once and its value bound to v, the way Python
\* evaluates the right-hand side of an assignment once.
Only(S) == CHOOSE v \in S : TRUE

Abs(x) == IF x < 0 THEN -x ELSE x
Min(a, b) == IF a <= b THEN a ELSE b
Max(a, b) == IF a >= b THEN a ELSE b
Sign(x) == IF x < 0 THEN -1 ELSE IF x > 0 THEN 1 ELSE 0

\* floor(a * b / One) for a, b >= 0
MulNat(a, b) ==
    Only({ LET a1 == x \div Limb   a0 == x % Limb
               b1 == y \div Limb   b0 == y % Limb
               m  == a1 * b0 + a0 * b1
           IN  a1 * b1 + (m \div Limb) + (((m % Limb) * Limb + a0 * b0) \div One) :
           x \in {a}, y \in {b} })

\* a * b for signed fixed values (magnitude truncated)
Mul(a, b) ==
    Only({ IF (x < 0) = (y < 0) THEN MulNat(Abs(x), Abs(y)) ELSE -MulNat(Abs(x), Abs(y)) :
           x \in {a}, y \in {b} })

\* floor(r * One / b) for 0 <= r < b <= 2 * One: eight digits of long division
DivDigits(r, b) ==
    LET r1 == (r * 10) % b
        r2 == (r1 * 10) % b
        r3 == (r2 * 10) % b
        r4 == (r3 * 10) % b
        r5 == (r4 * 10) % b
        r6 == (r5 * 10) % b
        r7 == (r6 * 10) % b
    IN  ((r * 10) \div b) * 10^7 + ((r1 * 10) \div b) * 10^6 + ((r2 * 10) \div b) * 10^5
          + ((r3 * 10) \div b) * 10^4 + ((r4 * 10) \div b) * 10^3
          + ((r5 * 10) \div b) * 10^2 + ((r6 * 10) \div b) * 10 + ((r7 * 10) \div b)

\* the power of two that brings y down to 2 * One at most
Halvings(y) ==
    IF y <= 2 * One THEN 1 ELSE IF y \div 2 <= 2 * One THEN 2
    ELSE IF y \div 4 <= 2 * One THEN 4 ELSE IF y \div 8 <= 2 * One THEN 8 ELSE 16

\* min(Cap, floor(a * One / b)) for a >= 0, b > 0; a and b are halved together
\* until b <= 2 * One
DivNat(a, b) ==
    Only({ IF x \div y >= 20 THEN Cap
           ELSE (x \div y) * One + DivDigits(x % y, y) :
           x \in {a \div Halvings(b)}, y \in {b \div Halvings(b)} })

\* a / b for signed fixed values, b # 0
Div(a, b) ==
    Only({ IF (x < 0) = (y < 0) THEN DivNat(Abs(x), Abs(y)) ELSE -DivNat(Abs(x), Abs(y)) :
           x \in {a}, y \in {b} })

\* largest s in lo..hi with s * s <= a
ISqrtStep(a, range) ==
    Only({ IF rg[1] >= rg[2] THEN rg
           ELSE Only({ IF mid * mid <= a THEN <<mid, rg[2]>> ELSE <<rg[1], mid - 1>> :
                       mid \in {(rg[1] + rg[2] + 1) \div 2} }) :
           rg \in {range} })

\* four halvings to a step of the recursion
RECURSIVE ISqrt(_, _, _)
ISqrt(a, lo, hi) ==
    IF lo >= hi THEN lo
    ELSE Only({ ISqrt(a, rg[1], rg[2]) :
                rg \in {ISqrtStep(a, ISqrtStep(a, ISqrtStep(a, ISqrtStep(a, <<lo, hi>>))))} })

\* math.sqrt on a fixed value a >= 0: integer root, then two Newton steps
Sqrt(a) ==
    Only({ IF x = 0 THEN 0
           ELSE Only({ Only({ (s1 + DivNat(x, s1)) \div 2 :
                              s1 \in {(s0 + DivNat(x, s0)) \div 2} }) :
                       s0 \in {Max(Limb, ISqrt(x, 0, 46340) * Limb)} }) :
           x \in {a} })

\* <<sum, term>> of the series of exp(-r) after its term n, from those after
\* term n - 1: term = r^n / n!, added for even n and subtracted for odd n
ExpStep(st, r, n) ==
    Only({ Only({ <<s[1] + (IF n % 2 = 0 THEN t ELSE -t), t>> :
                  t \in {MulNat(s[2], r) \div n} }) :
           s \in {st} })

\* sum over k >= 1 of (-r)^k / k!, 0 <= r < 1, term by term; the terms from
\* the twelfth on are below 1e-8
ExpSeries(r) ==
    Only({ Only({ Only({ s11[1] :
             s11 \in {ExpStep(ExpStep(ExpStep(s8, r, 9), r, 10), r, 11)} }) :
             s8  \in {ExpStep(ExpStep(ExpStep(ExpStep(s4, r, 5), r, 6), r, 7), r, 8)} }) :
             s4  \in {ExpStep(ExpStep(ExpStep(ExpStep(<<0, One>>, r, 1), r, 2), r, 3), r, 4)} })

\* exp(-k) for a natural k < 20: 0.36787944^k, each product truncated to 1e-8
ExpNegInt(k) ==
    << 100000000, 36787944, 13533528, 4978706, 1831563, 673794,
       247874, 91187, 33545, 12340, 4539, 1669, 613, 225, 82, 30,
       11, 4, 1, 0 >>[k + 1]

\* math.exp(-x) for a fixed x >= 0
ExpNeg(x) ==
    Only({ IF v >= Cap THEN 0
           ELSE MulNat(ExpNegInt(v \div One), One + ExpSeries(v % One)) :
           v \in {x} })

\* scipy.stats.norm.cdf(z), z >= 0 (Abramowitz-Stegun 26.2.17, error < 1e-7)
NormCdfPos(z) ==
    IF z >= 6 * One THEN One
    ELSE Only({ LET poly == Mul(t, 31938153 + Mul(t, -35656378 + Mul(t, 178147794
                              + Mul(t, -182125598 + Mul(t, 133027443)))))
                    pdf  == MulNat(39894228, ExpNeg(MulNat(z, z \div 2)))
                IN  One - Mul(pdf, poly) :
                t \in {DivNat(One, One + MulNat(23164190, z))} })

norm_cdf(z) == Only({ IF v >= 0 THEN NormCdfPos(v) ELSE One - NormCdfPos(-v) : v \in {z} })

\* Python round(): x to the nearest multiple of q, ties to even; result in units of q
RoundTo(x, q) ==
    Only({ LET lo == v \div q
               r  == v - lo * q
           IN  IF 2 * r < q THEN lo
               ELSE IF 2 * r > q THEN lo + 1
               ELSE IF lo % 2 = 0 THEN lo ELSE lo + 1 :
           v \in {x} })

\* round(x, 4) of a fixed value, as a fixed value
Round4(x) == RoundTo(x, Limb) * Limb

\* a value given in hundredths, as a fixed value
Hundredths(h) == h * (One \div 100)

\* ------------------------------------------------------------------------
\* config.py
\* ------------------------------------------------------------------------

BANKROLL     == 28800      \* cents
USE_MAKER    == TRUE
MAX_TRADE    == 2000       \* cents
MIN_SURVIVAL == 70         \* hundredths
MIN_EDGE     == 6          \* hundredths
MIN_PRICE    == 75         \* cents

\* ------------------------------------------------------------------------
\* IEEE-754 double results that differ from the decimal value (the inputs
\* are decimals with two places; each set lists where the double lands on
\* the other side of the exact result)
\* ------------------------------------------------------------------------

\* <<p, c>>: float(p/100) - float(c/100) > float((p - c)/100), for the
\* differences 6 and 10 and the prices 75..99
FloatDiffAbove ==
    {<<c + 6, c>> : c \in {75, 82, 83, 84, 85, 86, 87, 94}}
      \cup {<<c + 10, c>> : c \in {82, 83}}

\* <<p, c>>: float(p/100) - float(c/100) < float((p - c)/100), same range
FloatDiffBelow ==
    {<<c + 6, c>> : c \in {76, 77, 78, 79, 80, 81, 88, 89, 90, 91, 92, 93}}
      \cup {<<c + 10, c>> : c \in {75, 76, 77, 78, 79, 80, 81, 84, 85, 86, 87, 88, 89, 90}}

\* <<c, fee>>: (1 - float(c/100)) - float(fee/100) > 0 although 100 - c - fee = 0
FloatNetWinAbove == {<<99, 1>>}

\* c: float(c/100) + 0.02 > float((c + 2)/100), and below it
FloatFloorAbove == {7, 10, 27, 28, 33, 34, 39, 40, 45, 46, 55, 56, 67, 68, 80, 81, 92, 93}
FloatFloorBelow == {12, 15, 18, 21}

\* <<d, c>>: float(d/100) / float(c/100) is just below the integer d / c
\* (c divides d), for prices 75..99 and d up to MAX_TRADE
FloatQuotientBelow ==
    { <<228, 76>>, <<234, 78>>, <<240, 80>>, <<276, 92>>, <<405, 81>>, <<456, 76>>,
      <<460, 92>>, <<468, 78>>, <<480, 80>>, <<539, 77>>, <<552, 92>>, <<560, 80>>,
      <<567, 81>>, <<651, 93>>, <<810, 81>>, <<828, 92>>, <<837, 93>>, <<869, 79>>,
      <<912, 76>>, <<920, 92>>, <<936, 78>>, <<960, 80>>, <<979, 89>>, <<1012, 92>>,
      <<1027, 79>>, <<1053, 81>>, <<1078, 77>>, <<1104, 92>>, <<1120, 80>>,
      <<1134, 81>>, <<1170, 78>>, <<1170, 90>>, <<1185, 79>>, <<1302, 93>>,
      <<1395, 93>>, <<1520, 80>>, <<1620, 81>>, <<1638, 78>>, <<1656, 92>>,
      <<1674, 93>>, <<1738, 79>>, <<1824, 76>>, <<1840, 80>>, <<1840, 92>>,
      <<1863, 81>>, <<1872, 78>>, <<1890, 90>>, <<1920, 80>>, <<1958, 89>> }

\* <<p, b>> (fixed values): the double (b*p - q) / b lies just below a value
\* that is half-way between two 4-decimal numbers. p = 0.99, b = 0.24 / 0.75;
\* the (p, b) pairs come from PCurrentValues and KalshiAskValues.
FloatFStarBelow == {<<99000000, 32000000>>}

\* <<p, b>> (fixed values): b * p - (1 - p) is 0 for the decimals but positive
\* for the doubles (0.4 * 1.5 - 0.6 and 0.8 * 0.25 - 0.2), for p in 0.01..0.99
\* and b in 0.01..3.99
FloatFStarAbove == {<<40000000, 150000000>>, <<80000000, 25000000>>}

\* <<d, c>>: float(d/100) / float(c/100) is just below the integer d / c, for
\* the dollars and prices full_kelly reaches with the arguments it is called with
FloatKellyQuotientBelow == {<<8346, 78>>}

\* <<p_current, price, fee, contracts>>: the double ev lies just below / above
\* a half cent; same range of arguments
FloatEvBelow == {<<99, 78, 2, 25>>}
FloatEvAbove == {<<79, 75, 2, 25>>}

\* c: the double 1 - float(c/100) lies above / below the decimal (100 - c)/100,
\* for c in 1..99
FloatComplementAbove ==
    {18, 41, 42, 43, 57, 58, 59, 69, 70, 71, 82, 83, 84, 85, 94, 95, 96, 97, 98, 99}
FloatComplementBelow ==
    {7, 32, 33, 34, 54, 55, 56, 66, 67, 68, 77, 78, 79, 80, 81, 89, 90, 91, 92, 93}

\* ------------------------------------------------------------------------
\* fees.py
\* ------------------------------------------------------------------------

_TAKER_RATE == 700         \* 0.07   in units of 1e-4
_MAKER_RATE == 175         \* 0.0175 in units of 1e-4

\* price / 100 if price > 1 else price.  A price argument is carried as the
\* number times 100 (82 cents -> 8200, 0.82 -> 82); the result is in hundredths.
NormalizePrice(price) == IF price > 100 THEN price \div 100 ELSE price

\* kalshi_fee rounding to the nearest cent instead of up
kalshi_fee_nearest(contracts, price, maker) ==
    LET rate == IF maker THEN _MAKER_RATE ELSE _TAKER_RATE
        p    == NormalizePrice(price)
        raw  == rate * contracts * p * (100 - p)
    IN  (raw + 5 * 10^5) \div 10^6

\* kalshi_fee without the factor (1 - p)
kalshi_fee_rising(contracts, price, maker) ==
    LET rate == IF maker THEN _MAKER_RATE ELSE _TAKER_RATE
        p    == NormalizePrice(price)
        raw  == rate * contracts * p * 100
    IN  (raw + 10^6 - 1) \div 10^6

\* fee in cents, rounded up (ROUND_CEILING) from rate * c * p * (1 - p) dollars
kalshi_fee(contracts, price, maker) ==
    LET rate == IF maker THEN _MAKER_RATE ELSE _TAKER_RATE
        p    == NormalizePrice(price)
        raw  == rate * contracts * p * (100 - p)      \* units of 1e-6 cent
    IN  (raw + 10^6 - 1) \div 10^6

\* kalshi_fee for a price that is a double next to the two-decimal number
\* price/100 (0 < price < 100), above it (off = 1) or below it (off = -1).
\* Decimal(str(price)) is that double exactly, so raw leaves
\* rate * c * p * (1 - p) in the direction off * (1 - 2p) by less than 1e-12
\* cent, and ROUND_CEILING gives one cent more when a whole-cent raw moves up.
kalshi_fee_inexact(contracts, price, off, maker) ==
    LET rate == IF maker THEN _MAKER_RATE ELSE _TAKER_RATE
        raw  == rate * contracts * price * (100 - price)
    IN  IF raw % 10^6 = 0 /\ contracts * off * (100 - 2 * price) > 0
        THEN raw \div 10^6 + 1
        ELSE (raw + 10^6 - 1) \div 10^6

\* a price argument: the number times 100 when off = 0, else the double next to it
PriceArg(number, off) == [number |-> number, off |-> off]

\* kalshi_fee(contracts, price, maker) for a price argument
FeeOf(contracts, price, maker) ==
    IF price.off = 0
    THEN kalshi_fee(contracts, price.number, maker)
    ELSE kalshi_fee_inexact(contracts, price.number, price.off, maker)

\* the double 1 - P a caller computes from the decimal P = c/100
Complement(c) ==
    PriceArg(100 - c, IF c \in FloatComplementAbove THEN 1
                      ELSE IF c \in FloatComplementBelow THEN -1 ELSE 0)

\* ------------------------------------------------------------------------
\* kelly.py
\* ------------------------------------------------------------------------

\* (mu, var) of the log return at fraction f > 0, carried as <<mu / f, var / f^2>>
\* so that the moments at the lower bracket end f = 1e-6 stay representable
_log_return_moments(p, b, f) ==
    LET q == One - p IN
    Only({ << e - (Mul(f, m) \div 2), m - Mul(e, e) >> :
           e \in {Mul(b, p) - q},                \* b*p - q
           m \in {Mul(Mul(b, b), p) + q} })      \* b^2*p + q

\* n_bets * mu for mu = f * muf, saturated at Cap; n_bets * f is formed first
\* where it is small enough for the product to keep the digits of muf
NBetsTimes(n_bets, f, muf) ==
    IF f <= (10 * One) \div n_bets THEN MulNat(n_bets * f, muf)
    ELSE Only({ IF mu >= Cap \div n_bets THEN Cap ELSE n_bets * mu : mu \in {MulNat(f, muf)} })

\* exp(-2*mu*D/var) * (1 - exp(-n_bets*mu)), or 1.0 when mu <= 0 or var <= 0
\* (mu = 0 at f = 0).  A double keeps a positive value far below the resolution
\* carried here: p_ruin is exactly 0.0 only when the exponent passes 745, and
\* horizon is positive for mu > 0; such values are carried as 1 (1e-8) so that
\* their sign against alpha = 0 is the double's.
_drawdown_prob(p, b, f, D, n_bets) ==
    IF f = 0 THEN One
    ELSE
    Only({ LET muf == mv[1]
               vf2 == mv[2]
           IN  IF muf <= 0 \/ vf2 <= 0 THEN One
               ELSE Only({
                      LET p_ruin  == IF r \div f >= 745 THEN 0
                                     ELSE Max(1, ExpNeg(DivNat(r, f)))
                          horizon == Only({ Max(1, One - ExpNeg(nmu)) :
                                            nmu \in {NBetsTimes(n_bets, f, muf)} })
                      IN  Only({ IF pr = 0 THEN 0 ELSE Max(1, MulNat(pr, horizon)) :
                                 pr \in {p_ruin} }) :
                      r \in {DivNat(MulNat(2 * D, muf), vf2)} }) :
           mv \in {_log_return_moments(p, b, f)} })

\* the bracketing loop of scipy.optimize.brentq on g(f) = _drawdown_prob(f) - alpha:
\* g(lo) has sign slo and g(hi) the opposite one; halve until the bracket is xtol wide
BrentStep(p, b, D, n_bets, alpha, bracket, xtol, slo) ==
    Only({ IF br[2] - br[1] <= xtol THEN br
           ELSE Only({ IF Sign(_drawdown_prob(p, b, mid, D, n_bets) - alpha) = slo
                       THEN <<mid, br[2]>>
                       ELSE <<br[1], mid>> :
                       mid \in {(br[1] + br[2]) \div 2} }) :
           br \in {bracket} })

\* four halvings to a step of the recursion
RECURSIVE BrentBracket(_, _, _, _, _, _, _, _, _)
BrentBracket(p, b, D, n_bets, alpha, lo, hi, xtol, slo) ==
    IF hi - lo <= xtol THEN lo
    ELSE Only({ BrentBracket(p, b, D, n_bets, alpha, br[1], br[2], xtol, slo) :
                br \in {BrentStep(p, b, D, n_bets, alpha,
                          BrentStep(p, b, D, n_bets, alpha,
                            BrentStep(p, b, D, n_bets, alpha,
                              BrentStep(p, b, D, n_bets, alpha, <<lo, hi>>, xtol, slo),
                              xtol, slo), xtol, slo), xtol, slo)} })

\* brentq(g, a, f_star, xtol): "ValueError" when g(a) and g(f_star) have the same sign;
\* a bracket already narrower than xtol gives back its end with the smaller |g|
brentq(p, b, D, n_bets, alpha, a, f_star, xtol) ==
    Only({ IF Sign(ga) * Sign(gb) > 0 THEN [raised |-> "ValueError", root |-> 0]
           ELSE IF ga = 0 THEN [raised |-> "", root |-> a]
           ELSE IF gb = 0 THEN [raised |-> "", root |-> f_star]
           ELSE IF Abs(f_star - a) < xtol
                THEN [raised |-> "", root |-> IF Abs(ga) < Abs(gb) THEN a ELSE f_star]
           ELSE Only({ [raised |-> "",
                        root |-> BrentBracket(p, b, D, n_bets, alpha, lo, hi, xtol, slo)] :
                       lo \in {Min(a, f_star)}, hi \in {Max(a, f_star)},
                       slo \in {IF a <= f_star THEN Sign(ga) ELSE Sign(gb)} }) :
           ga \in {_drawdown_prob(p, b, a, D, n_bets) - alpha},
           gb \in {_drawdown_prob(p, b, f_star, D, n_bets) - alpha} })

\* f_star = (b * p - (1 - p)) / b
FStar(p, b) ==
    Div(Mul(b, p) - (One - p), b)
      + (IF <<p, b>> \in FloatFStarAbove THEN 1
         ELSE IF <<p, b>> \in FloatFStarBelow THEN -1 ELSE 0)

\* round(f_max / f_star, 4)
KellyMultiplier(f_max, f_star) == Round4(Div(f_max, f_star))

\* one run of max_kelly_for_drawdown_constraint: the dict it returns, and the
\* calls of _drawdown_prob and brentq it made on the way, in order.
\* At a pair of FloatFStarAbove f_star is about 1e-16, n_bets * mu is below
\* 1e-16 and horizon = 1 - exp(-n_bets * mu) is exactly 0.0.
MaxKellyRun(p, b, D, confidence, n_bets) ==
    LET alpha == One - confidence IN
    Only({ IF f_star <= 0
           THEN [result |-> [valid |-> FALSE, reason |-> "no edge",
                             f_max |-> 0, f_star |-> f_star, kelly_multiplier |-> 0],
                 evaluated |-> <<>>]
           ELSE Only({
             IF at_f_star <= alpha
             THEN [result |-> [valid |-> TRUE, f_max |-> Round4(f_star),
                               f_star |-> Round4(f_star),
                               kelly_multiplier |-> One,
                               drawdown_prob |-> Round4(at_f_star),
                               reason |-> "full Kelly satisfies constraint"],
                   evaluated |-> <<"_drawdown_prob", "_drawdown_prob">>]
             ELSE Only({
               IF r.raised # ""
               THEN [result |-> [valid |-> FALSE, reason |-> "no solution",
                                 f_max |-> 0, f_star |-> f_star, kelly_multiplier |-> 0],
                     evaluated |-> <<"_drawdown_prob", "brentq">>]
               ELSE [result |-> [valid |-> TRUE, f_max |-> Round4(r.root),
                                 f_star |-> Round4(f_star),
                                 kelly_multiplier |-> KellyMultiplier(r.root, f_star),
                                 drawdown_prob |->
                                     Round4(_drawdown_prob(p, b, r.root, D, n_bets)),
                                 reason |-> "constrained by drawdown limit"],
                     evaluated |-> <<"_drawdown_prob", "brentq", "_drawdown_prob">>] :
               r \in {brentq(p, b, D, n_bets, alpha, 100, f_star, 100)} }) :
             at_f_star \in {IF <<p, b>> \in FloatFStarAbove THEN 0
                            ELSE _drawdown_prob(p, b, f_star, D, n_bets)} }) :
           f_star \in {FStar(p, b)} })

max_kelly_for_drawdown_constraint(p, b, D, confidence, n_bets) ==
    MaxKellyRun(p, b, D, confidence, n_bets).result

\* an optional argument: a value, or None
Given(v) == [given |-> TRUE, v |-> v]
NotGiven == [given |-> FALSE, v |-> 0]

\* round(bankroll * f_star, 2) in cents: bankroll in cents, f_star a fixed value
KellyDollars(bankroll, f_star) ==
    RoundTo(bankroll * (f_star \div Limb) + (bankroll * (f_star % Limb)) \div Limb, Limb)

\* max(0, int(dollars / price)) in full_kelly: dollars in cents, price in hundredths
KellyContracts(dollars, price) ==
    Max(0, (dollars \div price) - (IF <<dollars, price>> \in FloatKellyQuotientBelow THEN 1 ELSE 0))

\* round(((p * net_win) - (q * net_loss)) * contracts, 2) in cents; p, price in
\* hundredths, fee in cents
KellyEv(p, price, fee, contracts) ==
    RoundTo((p * (100 - price - fee) - (100 - p) * price) * contracts, 100)

\* the dict full_kelly returns when it sizes nothing
NoSizing(reason, f_star) ==
    [valid |-> FALSE, reason |-> reason, f_star |-> f_star,
     contracts |-> 0, dollars |-> 0, ev |-> 0]

\* true_probability in hundredths and kalshi_ask times 100, each Given or
\* NotGiven; bankroll in cents.  f_star is Given(fixed value) or NotGiven.
full_kelly(true_probability, kalshi_ask, bankroll, maker) ==
    IF ~true_probability.given \/ ~kalshi_ask.given
    THEN NoSizing("missing data", NotGiven)
    ELSE Only({
      IF price < MIN_PRICE THEN NoSizing("below target zone", NotGiven)
      ELSE IF 100 - price - fee <= 0 THEN NoSizing("fee exceeds profit", Given(0))
      ELSE Only({
        IF f_star <= 0 THEN NoSizing("negative edge", Given(Round4(f_star)))
        ELSE Only({ Only({
               [valid     |-> TRUE,
                reason    |-> "ok",
                f_star    |-> Given(Round4(f_star)),
                contracts |-> contracts,
                dollars   |-> dollars,
                ev        |-> KellyEv(p, price, fee, contracts)] :
               contracts \in {KellyContracts(dollars, price)} }) :
               dollars \in {KellyDollars(bankroll, f_star)} }) :
        f_star \in {FStar(Hundredths(p), DivNat(Hundredths(100 - price - fee),
                                                Hundredths(price)))} }) :
      p     \in {true_probability.v},
      price \in {NormalizePrice(kalshi_ask.v)},
      fee   \in {kalshi_fee(1, kalshi_ask.v, maker)} })

\* ------------------------------------------------------------------------
\* config.py (team codes), teams.py
\* ------------------------------------------------------------------------

\* KALSHI_TO_ESPN["nba"] and KALSHI_TO_ESPN["ncaa"] as sets of <<Kalshi code, ESPN code>>
KALSHI_TO_ESPN_nba ==
    { <<"SAS", "SA">>, <<"NOP", "NO">>, <<"UTA", "UTAH">>, <<"WAS",
      "WSH">> }

KALSHI_TO_ESPN_ncaa ==
    { <<"AC", "ACU">>, <<"ALBY", "UALB">>, <<"CAMP", "CAM">>, <<"CHAT",
      "UTC">>, <<"CHS", "CHST">>, <<"COOK", "BCU">>, <<"CSN", "CSUN">>,
      <<"CSB", "CSUB">>, <<"HP", "HPU">>, <<"IW", "UIW">>, <<"JAC",
      "JAX">>, <<"JVST", "JXST">>, <<"LMC", "LEM">>, <<"LINW", "LIN">>,
      <<"MASSL", "UML">>, <<"MCNS", "MCN">>, <<"MHU", "MERC">>, <<"MIZZ",
      "MIZ">>, <<"MOSU", "MOST">>, <<"MTU", "MTSU">>, <<"MURR", "MUR">>,
      <<"NCST", "NCSU">>, <<"NHC", "NHVN">>, <<"NIAG", "NIA">>, <<"OKLA",
      "OU">>, <<"PRE", "PRES">>, <<"SBON", "SBU">>, <<"SCAR", "SC">>,
      <<"SCUS", "UPST">>, <<"SPC", "SPU">>, <<"STNH", "STO">>, <<"STON",
      "STBK">>, <<"TARL", "TAR">>, <<"TOWS", "TOW">>, <<"TXAM", "TA&M">>,
      <<"UALR", "LR">>, <<"UCRV", "UCR">>, <<"UMKC", "KC">>, <<"UST",
      "STMN">>, <<"UTRGV", "RGV">>, <<"VALP", "VAL">>, <<"WEBB", "GWEB">>,
      <<"WM", "W&M">> }

\* KALSHI_TO_ESPN.get(key, {})
KALSHI_TO_ESPN(key) ==
    IF key = "nba" THEN KALSHI_TO_ESPN_nba
    ELSE IF key = "ncaa" THEN KALSHI_TO_ESPN_ncaa
    ELSE {}

\* a string of letters: its upper-case form, and the positions written in lower case
Text(upper, lower_at) == [upper |-> upper, lower_at |-> lower_at]

\* str.upper()
Upper(text) == Text(text.upper, {})

_league_map(league) ==
    LET key == IF league = "nba" THEN "nba"
               ELSE IF league \in {"ncaabbm", "ncaabbw"} THEN "ncaa"
               ELSE league
    IN  KALSHI_TO_ESPN(key)

\* dict.get(code, default) on a set of <<key, value>> pairs; keys are upper-case strings
Get(pairs, code, default) ==
    IF code.lower_at = {} /\ \E kv \in pairs : kv[1] = code.upper
    THEN Text((CHOOSE kv \in pairs : kv[1] = code.upper)[2], {})
    ELSE default

normalize_kalshi_code(code, league) ==
    Only({ Get(_league_map(league), c, c) : c \in {Upper(code)} })

\* ------------------------------------------------------------------------
\* entry.py
\* ------------------------------------------------------------------------

\* is_effectively_locked with a lead equal to the required one not counted as locked
is_effectively_locked_strict(score_diff, seconds_remaining) ==
    IF seconds_remaining <= 0 THEN TRUE
    ELSE score_diff * 200 > seconds_remaining

\* score_diff >= (seconds_remaining / 60) * 0.3, or no time left
is_effectively_locked(score_diff, seconds_remaining) ==
    IF seconds_remaining <= 0 THEN TRUE
    ELSE score_diff * 200 >= seconds_remaining

\* wp_survival_probability with the binary rule as p_current > p_floor
wp_survival_probability_strict(p_current, p_floor, seconds_remaining, score_diff) ==
    IF seconds_remaining <= 0
    THEN (IF p_current > p_floor THEN One ELSE 0)
    ELSE LET tau == DivNat(seconds_remaining, 2880) IN
         Only({ IF wp_vol < 100
                THEN (IF p_current > p_floor THEN One ELSE 0)
                ELSE Only({ LET refl == IF Abs(z) >= 320000000 THEN 0
                                        ELSE ExpNeg(2 * MulNat(Abs(z), Abs(z)))
                            IN  Only({ Max(0, Min(One, survival)) :
                                       survival \in {norm_cdf(z) - MulNat(refl, norm_cdf(-z))} }) :
                            z \in {Div(p_current - p_floor, wp_vol)} }) :
                wp_vol \in {MulNat(MulNat(28000000, Sqrt(tau)),
                                   Sqrt(Max(0, Mul(p_current, One - p_current) * 4)))} })

\* p_current and p_floor are fixed values
wp_survival_probability(p_current, p_floor, seconds_remaining, score_diff) ==
    IF seconds_remaining <= 0
    THEN (IF p_current >= p_floor THEN One ELSE 0)
    ELSE LET tau == DivNat(seconds_remaining, 2880) IN
         Only({ IF wp_vol < 100
                THEN (IF p_current >= p_floor THEN One ELSE 0)
                ELSE Only({ LET refl == IF Abs(z) >= 320000000 THEN 0
                                        ELSE ExpNeg(2 * MulNat(Abs(z), Abs(z)))
                            IN  Only({ Max(0, Min(One, survival)) :
                                       survival \in {norm_cdf(z) - MulNat(refl, norm_cdf(-z))} }) :
                            z \in {Div(p_current - p_floor, wp_vol)} }) :
                wp_vol \in {MulNat(MulNat(28000000, Sqrt(tau)),
                                   Sqrt(Max(0, Mul(p_current, One - p_current) * 4)))} })

\* round(sqrt(max(0, p*(1-p)*tau)) * 0.85, 4)
wp_volatility_remaining(p_current, seconds_remaining) ==
    LET tau  == DivNat(seconds_remaining, 2880)
        base == Mul(p_current, One - p_current)
    IN  Round4(MulNat(Sqrt(Max(0, Mul(base, tau))), 85000000))

\* an exception leaving a function instead of a return value
Raise(exception) == [raised |-> exception]
Raises(outcome) == "raised" \in DOMAIN outcome

\* a recommendation string: the literal words of its format, and the formatted numbers
Rec(words, args) == [words |-> words, args |-> args]
Contains(rec, word) == \E i \in DOMAIN rec.words : rec.words[i] = word

\* _zero_sizing that leaves the ev key out of the dict
_zero_sizing_partial(recommendation, raw_edge, survival, vol_remaining, velocity, score) ==
    [valid            |-> TRUE,
     score            |-> score,
     recommendation   |-> recommendation,
     raw_edge         |-> Round4(raw_edge),
     survival         |-> Round4(survival),
     vol_remaining    |-> vol_remaining,
     velocity         |-> RoundTo(velocity, 10^5) * 10^5,
     f_max            |-> 0,
     f_star           |-> 0,
     kelly_multiplier |-> 0,
     dollars          |-> 0,
     contracts        |-> 0]

\* _zero_sizing that leaves the Kelly multiplier at its full-Kelly value
_zero_sizing_multiplier(recommendation, raw_edge, survival, vol_remaining, velocity, score) ==
    [valid            |-> TRUE,
     score            |-> score,
     recommendation   |-> recommendation,
     raw_edge         |-> Round4(raw_edge),
     survival         |-> Round4(survival),
     vol_remaining    |-> vol_remaining,
     velocity         |-> RoundTo(velocity, 10^5) * 10^5,
     f_max            |-> 0,
     f_star           |-> 0,
     kelly_multiplier |-> One,
     dollars          |-> 0,
     contracts        |-> 0,
     ev               |-> 0]

_zero_sizing(recommendation, raw_edge, survival, vol_remaining, velocity, score) ==
    [valid            |-> TRUE,
     score            |-> score,
     recommendation   |-> recommendation,
     raw_edge         |-> Round4(raw_edge),
     survival         |-> Round4(survival),
     vol_remaining    |-> vol_remaining,
     velocity         |-> RoundTo(velocity, 10^5) * 10^5,
     f_max            |-> 0,
     f_star           |-> 0,
     kelly_multiplier |-> 0,
     dollars          |-> 0,
     contracts        |-> 0,
     ev               |-> 0]

\* p_current - price as a fixed value (p_current, price in hundredths)
RawEdge(p_current, price) ==
    Hundredths(p_current - price)
      + (IF <<p_current, price>> \in FloatDiffAbove THEN 1
         ELSE IF <<p_current, price>> \in FloatDiffBelow THEN -1 ELSE 0)

\* (1 - price) - fee as a fixed value (price in hundredths, fee in cents)
NetWin(price, fee) ==
    Hundredths(100 - price - fee) + (IF <<price, fee>> \in FloatNetWinAbove THEN 1 ELSE 0)

\* price + 0.02 as a fixed value
PriceFloor(price) ==
    Hundredths(price + 2)
      + (IF price \in FloatFloorAbove THEN 1
         ELSE IF price \in FloatFloorBelow THEN -1 ELSE 0)

\* max(0, int(dollars / price)): dollars in cents, price in hundredths
Contracts(dollars, price) ==
    Max(0, (dollars \div price) - (IF <<dollars, price>> \in FloatQuotientBelow THEN 1 ELSE 0))

\* the Kelly result entry_quality works with (entry.py 165-173)
KellyC(p_current, net_win, raw_edge, price) ==
    IF net_win > 0 /\ raw_edge > 0
    THEN Only({ max_kelly_for_drawdown_constraint(Hundredths(p_current), b,
                                                  25000000, 95000000, 250) :
                b \in {DivNat(net_win, Hundredths(price))} })
    ELSE [valid |-> FALSE, f_max |-> 0, f_star |-> 0,
          kelly_multiplier |-> 0, reason |-> "no edge"]

\* SubScores without the cap of the edge sub-score at 1.0
SubScores_uncapped(raw_edge, survival, vel_norm, kelly_c, min_survival) ==
    [edge     |-> Max(0, Div(raw_edge, 15000000)),
     survival |-> Max(0, Div(survival - Hundredths(min_survival),
                             One - Hundredths(min_survival))),
     velocity |-> vel_norm,
     kelly    |-> IF kelly_c.valid THEN Min(One, Div(kelly_c.f_max, 10000000)) ELSE 0]

\* the four sub-scores, each a fixed value (entry.py 176-179)
SubScores(raw_edge, survival, vel_norm, kelly_c, min_survival) ==
    [edge     |-> Min(One, Max(0, Div(raw_edge, 15000000))),
     survival |-> Max(0, Div(survival - Hundredths(min_survival),
                             One - Hundredths(min_survival))),
     velocity |-> vel_norm,
     kelly    |-> IF kelly_c.valid THEN Min(One, Div(kelly_c.f_max, 10000000)) ELSE 0]

\* round((0.30*edge + 0.40*survival + 0.20*velocity + 0.10*kelly) * 100, 1), in tenths
Score(sub) ==
    Only({ RoundTo(Mul(30000000, s.edge) + Mul(40000000, s.survival)
                     + Mul(20000000, s.velocity) + Mul(10000000, s.kelly), 10^5) :
           s \in {sub} })

\* Label with the MARGINAL test ahead of the survival test
Label_marginal_first(score, survival, min_survival) ==
    IF score >= 700 /\ survival >= Hundredths(min_survival)
    THEN Rec(<<"*", "STRONG ENTRY">>, <<>>)
    ELSE IF score >= 500 /\ survival >= Hundredths(min_survival)
    THEN Rec(<<"ENTER">>, <<>>)
    ELSE IF score >= 300
    THEN Rec(<<"MARGINAL">>, <<>>)
    ELSE IF survival < Hundredths(min_survival)
    THEN Rec(<<"WAIT", "-", "survival", "<">>,
             <<RoundTo(survival, 10^6), min_survival>>)
    ELSE Rec(<<"SKIP">>, <<>>)

\* the recommendation label (entry.py 198-208); score in tenths, survival fixed
Label(score, survival, min_survival) ==
    IF score >= 700 /\ survival >= Hundredths(min_survival)
    THEN Rec(<<"*", "STRONG ENTRY">>, <<>>)
    ELSE IF score >= 500 /\ survival >= Hundredths(min_survival)
    THEN Rec(<<"ENTER">>, <<>>)
    ELSE IF survival < Hundredths(min_survival)
    THEN Rec(<<"WAIT", "-", "survival", "<">>,
             <<RoundTo(survival, 10^6), min_survival>>)
    ELSE IF score >= 300
    THEN Rec(<<"MARGINAL">>, <<>>)
    ELSE Rec(<<"SKIP">>, <<>>)

\* position sizing (entry.py 190-196): <<dollars, contracts, ev>>
\* Sizing without the MAX_TRADE cap on dollars
Sizing_uncapped(p_current, price, fee, bankroll, kelly_c) ==
    IF kelly_c.valid /\ kelly_c.f_max > 0
    THEN LET raw_dollars == bankroll * (kelly_c.f_max \div Limb)
         IN  Only({ Only({ <<dollars, contracts,
                             RoundTo((p_current * (100 - price - fee)
                                      - (100 - p_current) * price) * contracts, 100)>> :
                           contracts \in {Contracts(dollars, price)} }) :
                    dollars \in {RoundTo(raw_dollars, Limb)} })
    ELSE <<0, 0, 0>>

Sizing(p_current, price, fee, bankroll, kelly_c) ==
    IF kelly_c.valid /\ kelly_c.f_max > 0
    THEN LET raw_dollars == bankroll * (kelly_c.f_max \div Limb)   \* 1e-4 cent
         IN  Only({ Only({ LET ev == RoundTo((p_current * (100 - price - fee)
                                               - (100 - p_current) * price) * contracts
                                             + (IF <<p_current, price, fee, contracts>>
                                                     \in FloatEvAbove THEN 1
                                                ELSE IF <<p_current, price, fee, contracts>>
                                                     \in FloatEvBelow THEN -1
                                                ELSE 0), 100)
                           IN  <<dollars, contracts, ev>> :
                           contracts \in {Contracts(dollars, price)} }) :
                    dollars \in {RoundTo(Min(raw_dollars, MAX_TRADE * Limb), Limb)} })
    ELSE <<0, 0, 0>>

\* p_current, min_edge, min_survival in hundredths; kalshi_ask times 100; bankroll in cents
\* the velocity with one minute in place of one hour
VelNorm_minute(seconds_remaining) == Min(One, DivNat(60, Max(seconds_remaining, 60)))

\* vel_norm = min(1.0, 3600 / max(seconds_remaining, 60)), a fixed value
VelNorm(seconds_remaining) == Min(One, DivNat(3600, Max(seconds_remaining, 60)))

entry_quality(p_current, kalshi_ask, seconds_remaining, score_diff, period, bankroll, maker, min_edge, min_survival) ==
    Only({ Only({
      IF price < MIN_PRICE
      THEN _zero_sizing(Rec(<<"SKIP", "-", "below target zone">>, <<>>),
                        raw_edge, survival, vol_remaining, vel_norm, 0)
      ELSE IF net_win <= 0
      THEN _zero_sizing(Rec(<<"SKIP", "-", "fee exceeds profit">>, <<>>),
                        raw_edge, survival, vol_remaining, vel_norm, 0)
      ELSE IF raw_edge <= Hundredths(min_edge)
      THEN _zero_sizing(Rec(<<"SKIP", "-", "edge", "<", "min">>,
                            <<RoundTo(raw_edge, 10^5), min_edge>>),
                        raw_edge, survival, vol_remaining, vel_norm, 0)
      ELSE IF period < 4 /\ ~is_effectively_locked(score_diff, seconds_remaining)
      THEN _zero_sizing(Rec(<<"WAIT", "-", "Q", "needs", "pt lead", "have">>,
                            <<period, RoundTo(seconds_remaining * 3, 600), score_diff>>),
                        raw_edge, survival, vol_remaining, vel_norm, 0)
      ELSE Only({
        IF min_survival = 100
        THEN Raise("ZeroDivisionError")      \* (survival - min_survival) / (1 - min_survival)
        ELSE Only({
        [valid            |-> TRUE,
         score            |-> score,
         recommendation   |-> Label(score, survival, min_survival),
         raw_edge         |-> Round4(raw_edge),
         survival         |-> Round4(survival),
         vol_remaining    |-> vol_remaining,
         velocity         |-> RoundTo(vel_norm, 10^5) * 10^5,
         f_max            |-> kelly_c.f_max,
         f_star           |-> kelly_c.f_star,
         kelly_multiplier |-> kelly_c.kelly_multiplier,
         dollars          |-> size[1],
         contracts        |-> size[2],
         ev               |-> size[3]] :
        score \in {Score(SubScores(raw_edge, survival, vel_norm, kelly_c, min_survival))},
        size  \in {Sizing(p_current, price, fee, bankroll, kelly_c)} }) :
        kelly_c \in {KellyC(p_current, net_win, raw_edge, price)} }) :
      net_win  \in {NetWin(price, fee)},
      raw_edge \in {RawEdge(p_current, price)},
      survival \in {wp_survival_probability(Hundredths(p_current), PriceFloor(price),
                                            seconds_remaining, score_diff)} }) :
      price         \in {NormalizePrice(kalshi_ask)},
      fee           \in {kalshi_fee(1, kalshi_ask, maker)},
      vol_remaining \in {wp_volatility_remaining(Hundredths(p_current), seconds_remaining)},
      vel_norm      \in {VelNorm(seconds_remaining)} })

\* ------------------------------------------------------------------------
\* espn.py
\* ------------------------------------------------------------------------

\* A clock string is the sequence of its characters.
DigitChars == {"0", "1", "2", "3", "5"}
DigitValue(ch) ==
    CASE ch = "0" -> 0 [] ch = "1" -> 1 [] ch = "2" -> 2 [] ch = "3" -> 3 [] ch = "5" -> 5

IsDigits(str) == str # <<>> /\ \A i \in DOMAIN str : str[i] \in DigitChars

\* the number a string of digits writes
RECURSIVE DigitsValue(_)
DigitsValue(str) ==
    IF str = <<>> THEN 0
    ELSE 10 * DigitsValue(SubSeq(str, 1, Len(str) - 1)) + DigitValue(str[Len(str)])

\* positions of ch in str
Positions(str, ch) == {i \in DOMAIN str : str[i] = ch}
First(S) == CHOOSE i \in S : \A j \in S : i <= j

\* str.split(":")[0] and str.split(":")[1], for a str that contains ":"
SplitHead(str) == SubSeq(str, 1, First(Positions(str, ":")) - 1)
SplitNext(str) ==
    LET rest == SubSeq(str, First(Positions(str, ":")) + 1, Len(str))
    IN  IF Positions(rest, ":") = {} THEN rest
        ELSE SubSeq(rest, 1, First(Positions(rest, ":")) - 1)

\* int(str): digits only
IntOf(str) == IF IsDigits(str) THEN Given(DigitsValue(str)) ELSE Raise("ValueError")

\* int(float(str)): digits with at most one point and at least one digit are
\* truncated; "inf" is a float that int() refuses with OverflowError
IntOfFloat(str) ==
    IF str = <<"i", "n", "f">> THEN Raise("OverflowError")
    ELSE IF Positions(str, ".") = {} THEN IntOf(str)
    ELSE LET dot    == First(Positions(str, "."))
             whole  == SubSeq(str, 1, dot - 1)
             frac   == SubSeq(str, dot + 1, Len(str))
         IN  IF (whole = <<>> \/ IsDigits(whole)) /\ (frac = <<>> \/ IsDigits(frac))
                  /\ ~(whole = <<>> /\ frac = <<>>)
             THEN Given(DigitsValue(whole))
             ELSE Raise("ValueError")

\* clock_seconds of _parse_seconds_remaining (espn.py 57-61), or the exception
ClockSeconds(clock) ==
    IF Positions(clock, ":") # {}
    THEN Only({ IF Raises(minutes) THEN minutes
                ELSE Only({ IF Raises(seconds) THEN seconds
                            ELSE Given(minutes.v * 60 + seconds.v) :
                            seconds \in {IntOfFloat(SplitNext(clock))} }) :
                minutes \in {IntOf(SplitHead(clock))} })
    ELSE IntOfFloat(clock)

\* Given(seconds), NotGiven for the None of the except clause, or the
\* exception that clause does not catch
_parse_seconds_remaining(clock, period) ==
    Only({ IF Raises(clock_seconds)
           THEN (IF clock_seconds.raised \in {"ValueError", "IndexError"}
                 THEN NotGiven ELSE clock_seconds)
           ELSE Given(clock_seconds.v + Max(0, 4 - period) * 12 * 60) :
           clock_seconds \in {ClockSeconds(clock)} })

\* ------------------------------------------------------------------------
\* kalshi_client.py
\* ------------------------------------------------------------------------

None == [none |-> TRUE]

\* _submit_order that does not record a dry-run submission in _orders_placed
_submit_order_dry_unrecorded(orders_placed, ticker, side, ask_price, contracts, dry_run, client_ok) ==
    LET order_key == <<ticker, side>> IN
    IF dry_run
    THEN [result |-> [status |-> "dry_run", ticker |-> ticker, side |-> side,
                      contracts |-> contracts, price |-> ask_price],
          orders_placed |-> orders_placed,
          created |-> <<>>]
    ELSE IF client_ok
    THEN [result |-> [status |-> "placed", ticker |-> ticker, side |-> side,
                      contracts |-> contracts, price |-> ask_price],
          orders_placed |-> orders_placed \cup {order_key},
          created |-> <<[ticker |-> ticker, side |-> side, action |-> "buy",
                         count |-> contracts, price |-> ask_price]>>]
    ELSE [result |-> [status |-> "failed", ticker |-> ticker, side |-> side],
          orders_placed |-> orders_placed,
          created |-> <<[ticker |-> ticker, side |-> side, action |-> "buy",
                         count |-> contracts, price |-> ask_price]>>]

\* _submit_order that records the key although create_order raised
_submit_order_failure_recorded(orders_placed, ticker, side, ask_price, contracts, dry_run, client_ok) ==
    LET order_key == <<ticker, side>> IN
    IF dry_run
    THEN [result |-> [status |-> "dry_run", ticker |-> ticker, side |-> side,
                      contracts |-> contracts, price |-> ask_price],
          orders_placed |-> orders_placed \cup {order_key},
          created |-> <<>>]
    ELSE LET call == [ticker |-> ticker, side |-> side, action |-> "buy",
                      count |-> contracts, price |-> ask_price]
         IN  IF client_ok
             THEN [result |-> [status |-> "placed", ticker |-> ticker, side |-> side,
                               contracts |-> contracts, price |-> ask_price],
                   orders_placed |-> orders_placed \cup {order_key},
                   created |-> <<call>>]
             ELSE [result |-> [status |-> "failed", ticker |-> ticker, side |-> side],
                   orders_placed |-> orders_placed \cup {order_key},
                   created |-> <<call>>]

\* returns [result, orders_placed, created]: the dict returned, _orders_placed
\* afterwards, and the create_order calls made on the client
_submit_order(orders_placed, ticker, side, ask_price, contracts, dry_run, client_ok) ==
    LET order_key == <<ticker, side>> IN
    IF dry_run
    THEN [result |-> [status |-> "dry_run", ticker |-> ticker, side |-> side,
                      contracts |-> contracts, price |-> ask_price],
          orders_placed |-> orders_placed \cup {order_key},
          created |-> <<>>]
    ELSE LET call == [ticker |-> ticker, side |-> side, action |-> "buy",
                      count |-> contracts, price |-> ask_price]
         IN  IF client_ok
             THEN [result |-> [status |-> "placed", ticker |-> ticker, side |-> side,
                               contracts |-> contracts, price |-> ask_price],
                   orders_placed |-> orders_placed \cup {order_key},
                   created |-> <<call>>]
             ELSE [result |-> [status |-> "failed", ticker |-> ticker, side |-> side],
                   orders_placed |-> orders_placed,
                   created |-> <<call>>]

\* a number ask_price (whole cents), and one that is not a number
Number(cents) == [is_number |-> TRUE, cents |-> cents]
NotANumber == [is_number |-> FALSE, cents |-> 0]

\* maybe_trade without the score guard
maybe_trade_score_unchecked(orders_placed, ticker, side, entry, ask_price, dry_run, client_ok) ==
    LET blocked == [result |-> None, orders_placed |-> orders_placed, created |-> <<>>] IN
    IF ~ask_price.is_number THEN blocked
    ELSE IF ask_price.cents < MIN_PRICE THEN blocked
    ELSE IF entry.contracts <= 0 THEN blocked
    ELSE IF entry.raw_edge < Hundredths(MIN_EDGE) THEN blocked
    ELSE IF entry.survival < Hundredths(MIN_SURVIVAL) THEN blocked
    ELSE IF Contains(entry.recommendation, "SKIP")
              \/ Contains(entry.recommendation, "WAIT") THEN blocked
    ELSE IF <<ticker, side>> \in orders_placed THEN blocked
    ELSE _submit_order(orders_placed, ticker, side, ask_price.cents, entry.contracts,
                       dry_run, client_ok)

\* entry: raw_edge and survival fixed values, score in tenths
maybe_trade(orders_placed, ticker, side, entry, ask_price, dry_run, client_ok) ==
    LET blocked == [result |-> None, orders_placed |-> orders_placed, created |-> <<>>] IN
    IF ~ask_price.is_number THEN blocked
    ELSE IF ask_price.cents < MIN_PRICE THEN blocked
    ELSE IF entry.contracts <= 0 THEN blocked
    ELSE IF entry.raw_edge < Hundredths(MIN_EDGE) THEN blocked
    ELSE IF entry.survival < Hundredths(MIN_SURVIVAL) THEN blocked
    ELSE IF entry.score < 500 THEN blocked
    ELSE IF Contains(entry.recommendation, "SKIP")
              \/ Contains(entry.recommendation, "WAIT") THEN blocked
    ELSE IF <<ticker, side>> \in orders_placed THEN blocked
    ELSE _submit_order(orders_placed, ticker, side, ask_price.cents, entry.contracts,
                       dry_run, client_ok)

\* ------------------------------------------------------------------------
\* display.py
\* ------------------------------------------------------------------------

\* the entry print_and_trade uses for a side it cannot evaluate
_NO_DATA_ENTRY ==
    [valid |-> TRUE, score |-> 0, recommendation |-> Rec(<<"-", "no data">>, <<>>),
     raw_edge |-> 0, survival |-> 0, vol_remaining |-> 0,
     velocity |-> 0, f_max |-> 0, f_star |-> 0,
     kelly_multiplier |-> 0, dollars |-> 0, contracts |-> 0, ev |-> 0]

\* ask_int = int(ask) if isinstance(ask, (int, float)) else 0; a number ask is
\* carried times 100
AskInt(ask) == IF ask.is_number THEN ask.cents \div 100 ELSE 0

\* ------------------------------------------------------------------------
\* Bounds: the arguments the callers are modelled to pass
\* ------------------------------------------------------------------------

MaxPeriod == 4
PCurrentValues         == {79, 84, 88, 92, 99}                   \* hundredths
KalshiAskValues        == {100, 7400, 7500, 7800, 8200, 9900,    \* whole cents
                           20, 82}                               \* decimals
SecondsRemainingValues == {0, 120, 1800, 2880, 7200}
ScoreDiffValues        == {-3, 9}
PeriodValues           == {0} \cup (3..MaxPeriod)
BankrollValues         == {BANKROLL, 4600}                       \* cents
\* <<min_edge, min_survival>>: the defaults, and both thresholds at 0
ThresholdValues        == {<<MIN_EDGE, MIN_SURVIVAL>>, <<0, 0>>}

GridArgs ==
    { [p_current |-> p, kalshi_ask |-> k, seconds_remaining |-> s, score_diff |-> d,
       period |-> q, bankroll |-> r, maker |-> m, min_edge |-> t[1], min_survival |-> t[2]] :
      p \in PCurrentValues, k \in KalshiAskValues, s \in SecondsRemainingValues,
      d \in ScoreDiffValues, q \in PeriodValues, r \in BankrollValues, m \in BOOLEAN,
      t \in ThresholdValues }

\* calls with min_survival at the upper end of its range
RangeEndArgs ==
    { [p_current |-> p, kalshi_ask |-> k, seconds_remaining |-> s, score_diff |-> 9,
       period |-> 4, bankroll |-> BANKROLL, maker |-> USE_MAKER,
       min_edge |-> MIN_EDGE, min_survival |-> 100] :
      p \in PCurrentValues, k \in KalshiAskValues, s \in SecondsRemainingValues }

EntryArgs == GridArgs \cup RangeEndArgs

\* calls that pass a negative bankroll (cents)
NegativeBankrollValues == {-BANKROLL, -4600}
NegativeBankrollArgs ==
    { [p_current |-> p, kalshi_ask |-> k, seconds_remaining |-> s, score_diff |-> 9,
       period |-> 4, bankroll |-> r, maker |-> USE_MAKER,
       min_edge |-> MIN_EDGE, min_survival |-> MIN_SURVIVAL] :
      p \in PCurrentValues, k \in KalshiAskValues, s \in SecondsRemainingValues,
      r \in NegativeBankrollValues }

\* direct calls of kalshi_fee: prices in whole cents, as decimals, and as the
\* complement 1 - P of a decimal
ContractValues == {0, 1, 2, 10, 100}
CentValues     == 1..99
FeePrices ==
    {PriceArg(c * 100, 0) : c \in CentValues}
      \cup {PriceArg(c, 0) : c \in CentValues}
      \cup {Complement(c) : c \in CentValues}
FeeArgs ==
    [fn : {"kalshi_fee"}, contracts : ContractValues, price : FeePrices, maker : BOOLEAN]

\* direct calls of max_kelly_for_drawdown_constraint; p, b, D, confidence in hundredths
KellyPValues          == {26, 40, 51, 75, 80, 85, 90, 92}
KellyBValues          == {15, 20, 25, 50, 100, 150, 300}
DValues               == {25, 1}
ConfidenceValues      == {95, 100}
NBetsValues           == {250, 10}
KellyGridArgs ==
    [fn : {"max_kelly_for_drawdown_constraint"},
     p : {Hundredths(h) : h \in KellyPValues}, b : {Hundredths(h) : h \in KellyBValues},
     D : {Hundredths(h) : h \in DValues},
     confidence : {Hundredths(h) : h \in ConfidenceValues}, n_bets : NBetsValues]

\* p = 0.5000003 at even odds: f_star = 6e-7 lies below the bracket end 1e-6.
\* confidence = 0.999999 over 10^7 bets puts alpha between the ruin at 1e-6
\* and the ruin at f_star.
SmallEdgeArgs ==
    [fn : {"max_kelly_for_drawdown_constraint"}, p : {50000030}, b : {One},
     D : {Hundredths(25)}, confidence : {99999900}, n_bets : {10^7}]

\* the arguments are carried as fixed values
KellyArgs == KellyGridArgs \cup SmallEdgeArgs

\* direct calls of wp_survival_probability; p_current and p_floor in hundredths
WpPValues        == {0, 50, 77, 90, 100}
PFloorValues     == {0, 50, 77, 100}
WpSecondsValues  == {-1, 0, 1, 120, 2880}
WpScoreValues    == {-3, 9}
SurvivalArgs ==
    [fn : {"wp_survival_probability"},
     p_current : {Hundredths(h) : h \in WpPValues}, p_floor : {Hundredths(h) : h \in PFloorValues},
     seconds_remaining : WpSecondsValues, score_diff : WpScoreValues]

\* direct calls of full_kelly: true_probability in hundredths or None,
\* kalshi_ask times 100 or None, bankroll in cents
FullKellyArgs ==
    [fn : {"full_kelly"},
     true_probability : {NotGiven} \cup {Given(p) : p \in PCurrentValues},
     kalshi_ask : {NotGiven} \cup {Given(k) : k \in KalshiAskValues},
     bankroll : BankrollValues \cup {13400}, maker : BOOLEAN]

\* direct calls of is_effectively_locked
LockScoreValues   == -3..15
LockSecondsValues == {-60, 0, 1, 199, 200, 201, 300, 2544, 2600, 2880, 3000}
LockArgs ==
    [fn : {"is_effectively_locked"}, score_diff : LockScoreValues,
     seconds_remaining : LockSecondsValues]

\* direct calls of normalize_kalshi_code: codes of the tests and of both maps,
\* written in upper case, with a lower-case first letter, and all in lower case
CodeValues   == {"BRK", "GS", "NY", "CLT", "BOIS", "LAL", "SAS", "NOP", "UTA", "WAS",
                 "AC", "TXAM", "WM"}
CaseValues   == {{}, {1}, {1, 2, 3, 4}}
LeagueValues == {"nba", "ncaabbm", "ncaabbw", "nfl"}
NormalizeArgs ==
    [fn : {"normalize_kalshi_code"},
     code : {Text(c, l) : c \in CodeValues, l \in CaseValues}, league : LeagueValues]

\* direct calls of _parse_seconds_remaining: every string of up to MaxClockLen
\* characters of ClockChars, and the clocks of the tests and of a float "inf"
MaxClockLen == 3
ClockChars  == {"5", "0", ":", ".", "?"}
ShortClocks == UNION { [1..n -> ClockChars] : n \in 0..MaxClockLen }
NamedClocks ==
    { <<"5", ":", "0", "0">>, <<"1", "0", ":", "0", "0">>, <<"1", "2", ":", "0", "0">>,
      <<"3", "0", "0">>, <<"?", "?", ":", "?", "?">>, <<"5", ":", "3", "0", ".", "5">>,
      <<"i", "n", "f">>, <<"5", ":", "i", "n", "f">> }
ClockPeriodValues == 0..6
ParseArgs ==
    [fn : {"_parse_seconds_remaining"}, clock : ShortClocks \cup NamedClocks,
     period : ClockPeriodValues]

Tickers == {"KXNBAGAME-A", "KXNBAGAME-B"}

\* print_and_trade: the live state and ask of one side of a game, evaluated
\* with the default bankroll, role and thresholds
GameAskValues     == {7400, 7800, 8200, 9900, 82}
GameSecondsValues == {120, 1800, 2880}
GamePeriodValues  == {3, 4}
GameArgs ==
    { [p_current |-> p, kalshi_ask |-> k, seconds_remaining |-> t, score_diff |-> d,
       period |-> q, bankroll |-> BANKROLL, maker |-> USE_MAKER,
       min_edge |-> MIN_EDGE, min_survival |-> MIN_SURVIVAL] :
      p \in PCurrentValues, k \in GameAskValues, t \in GameSecondsValues,
      d \in ScoreDiffValues, q \in GamePeriodValues }
\* a side without a win probability or clock, its ask a number or not
NoDataAskValues == {NotANumber, Number(8200)}
Sides   == {"yes", "no"}
Keys    == Tickers \X Sides

TradeEntries ==
    [contracts : {0, 5},
     raw_edge : {Hundredths(5), Hundredths(MIN_EDGE)},
     survival : {Hundredths(69), Hundredths(MIN_SURVIVAL)},
     score : {499, 500},
     recommendation : {Rec(<<"ENTER">>, <<>>),
                       Rec(<<"SKIP", "-", "below target zone">>, <<>>),
                       Rec(<<"WAIT", "-", "Q", "needs", "pt lead", "have">>, <<2, 13, 5>>)}]

TradeArgs ==
    [ticker : Tickers, side : Sides, entry : TradeEntries,
     ask_price : {NotANumber, Number(74), Number(MIN_PRICE)}, dry_run : BOOLEAN, client_ok : BOOLEAN]

\* ------------------------------------------------------------------------
\* State
\* ------------------------------------------------------------------------

VARIABLES
    pc,              \* the caller: "idle", "entry_quality", "decided",
                     \*             "raised", "maybe_trade", "returned", and
                     \*             the name of a function called directly, "done"
    args,            \* arguments of the entry_quality call in progress
    decision,        \* the dict entry_quality returned
    order,           \* arguments of the maybe_trade call in progress, with the
                     \* client's answer to create_order (client_ok)
    result,          \* what maybe_trade returned
    created,         \* create_order calls made by that maybe_trade call
    _orders_placed,  \* kalshi_client._orders_placed
    submitted,       \* per key, submissions with status placed or dry_run since
                     \* the last reset_session (history)
    call,            \* arguments of a direct call of kalshi_fee,
                     \* max_kelly_for_drawdown_constraint or wp_survival_probability
    value,           \* what that call returned
    evaluated        \* the helpers that call ran, in order (history)

vars == <<pc, args, decision, order, result, created, _orders_placed, submitted,
          call, value, evaluated>>
engine == <<args, decision>>
gate   == <<order, result, created, _orders_placed, submitted>>
direct == <<call, value, evaluated>>

Init ==
    /\ pc = "idle"
    /\ args = None
    /\ decision = None
    /\ order = None
    /\ result = None
    /\ created = <<>>
    /\ _orders_placed = {}
    /\ submitted = [k \in Keys |-> 0]
    /\ call = None
    /\ value = None
    /\ evaluated = <<>>

\* the caller invokes entry_quality(...)
CallEntryQuality ==
    /\ pc = "idle"
    /\ \E a \in EntryArgs : args' = a
    /\ pc' = "entry_quality"
    /\ UNCHANGED <<decision, gate, direct>>

\* the caller invokes entry_quality(...) with a negative bankroll
CallEntryQualityNegativeBankroll ==
    /\ pc = "idle"
    /\ \E a \in NegativeBankrollArgs : args' = a
    /\ pc' = "entry_quality"
    /\ UNCHANGED <<decision, gate, direct>>

\* entry_quality runs to its return
\* an evaluation that empties the session tracker
EntryQuality_resetting ==
    /\ pc = "entry_quality"
    /\ \E d \in {entry_quality(args.p_current, args.kalshi_ask, args.seconds_remaining,
                                args.score_diff, args.period, args.bankroll, args.maker,
                                args.min_edge, args.min_survival)} :
         /\ decision' = d
         /\ pc' = IF Raises(d) THEN "raised" ELSE "decided"
    /\ _orders_placed' = {}
    /\ UNCHANGED <<args, order, result, created, submitted, direct>>

EntryQuality ==
    /\ pc = "entry_quality"
    /\ \E d \in {entry_quality(args.p_current, args.kalshi_ask, args.seconds_remaining,
                                args.score_diff, args.period, args.bankroll, args.maker,
                                args.min_edge, args.min_survival)} :
         /\ decision' = d
         /\ pc' = IF Raises(d) THEN "raised" ELSE "decided"
    /\ UNCHANGED <<args, gate, direct>>

\* the caller drops the decision, or the exception leaves the caller
DropDecision ==
    /\ pc \in {"decided", "raised"}
    /\ args' = None
    /\ decision' = None
    /\ pc' = "idle"
    /\ UNCHANGED <<gate, direct>>

\* the caller invokes maybe_trade(...)
CallMaybeTrade ==
    /\ pc = "idle"
    /\ \E o \in TradeArgs : order' = o
    /\ pc' = "maybe_trade"
    /\ UNCHANGED <<engine, result, created, _orders_placed, submitted, direct>>

\* maybe_trade runs to its return
MaybeTrade ==
    /\ pc = "maybe_trade"
    /\ LET r == maybe_trade(_orders_placed, order.ticker, order.side, order.entry,
                            order.ask_price, order.dry_run, order.client_ok)
           k == <<order.ticker, order.side>>
       IN  /\ result' = r.result
           /\ created' = r.created
           /\ _orders_placed' = r.orders_placed
           /\ submitted' = IF r.result # None /\ r.result.status \in {"placed", "dry_run"}
                           THEN [submitted EXCEPT ![k] = @ + 1]
                           ELSE submitted
    /\ pc' = "returned"
    /\ UNCHANGED <<engine, order, direct>>

\* the caller takes the result
TakeResult ==
    /\ pc = "returned"
    /\ order' = None
    /\ result' = None
    /\ created' = <<>>
    /\ pc' = "idle"
    /\ UNCHANGED <<engine, _orders_placed, submitted, direct>>

\* reset_session()
ResetSession ==
    /\ pc = "idle"
    /\ _orders_placed' = {}
    /\ submitted' = [k \in Keys |-> 0]
    /\ UNCHANGED <<pc, engine, order, result, created, direct>>

\* a direct call of kalshi_fee(contracts, price, maker)
CallKalshiFee ==
    /\ pc = "idle"
    /\ \E a \in FeeArgs : call' = a
    /\ pc' = "kalshi_fee"
    /\ UNCHANGED <<engine, gate, value, evaluated>>

\* kalshi_fee runs to its return
KalshiFee ==
    /\ pc = "kalshi_fee"
    /\ value' = FeeOf(call.contracts, call.price, call.maker)
    /\ pc' = "done"
    /\ UNCHANGED <<engine, gate, call, evaluated>>

\* a direct call of max_kelly_for_drawdown_constraint(p, b, D, confidence, n_bets)
CallMaxKelly ==
    /\ pc = "idle"
    /\ \E a \in KellyArgs : call' = a
    /\ pc' = "max_kelly_for_drawdown_constraint"
    /\ UNCHANGED <<engine, gate, value, evaluated>>

\* max_kelly_for_drawdown_constraint runs to its return
MaxKelly ==
    /\ pc = "max_kelly_for_drawdown_constraint"
    /\ \E r \in {MaxKellyRun(call.p, call.b, call.D, call.confidence, call.n_bets)} :
         /\ value' = r.result
         /\ evaluated' = r.evaluated
    /\ pc' = "done"
    /\ UNCHANGED <<engine, gate, call>>

\* a direct call of wp_survival_probability(p_current, p_floor, seconds_remaining, score_diff)
CallWpSurvival ==
    /\ pc = "idle"
    /\ \E a \in SurvivalArgs : call' = a
    /\ pc' = "wp_survival_probability"
    /\ UNCHANGED <<engine, gate, value, evaluated>>

\* wp_survival_probability runs to its return
WpSurvival ==
    /\ pc = "wp_survival_probability"
    /\ value' = wp_survival_probability(call.p_current, call.p_floor,
                                        call.seconds_remaining, call.score_diff)
    /\ pc' = "done"
    /\ UNCHANGED <<engine, gate, call, evaluated>>

\* a direct call of full_kelly(true_probability, kalshi_ask, bankroll, maker)
CallFullKelly ==
    /\ pc = "idle"
    /\ \E a \in FullKellyArgs : call' = a
    /\ pc' = "full_kelly"
    /\ UNCHANGED <<engine, gate, value, evaluated>>

\* full_kelly runs to its return
FullKelly ==
    /\ pc = "full_kelly"
    /\ value' = full_kelly(call.true_probability, call.kalshi_ask, call.bankroll, call.maker)
    /\ pc' = "done"
    /\ UNCHANGED <<engine, gate, call, evaluated>>

\* a direct call of is_effectively_locked(score_diff, seconds_remaining)
CallIsEffectivelyLocked ==
    /\ pc = "idle"
    /\ \E a \in LockArgs : call' = a
    /\ pc' = "is_effectively_locked"
    /\ UNCHANGED <<engine, gate, value, evaluated>>

\* is_effectively_locked runs to its return
IsEffectivelyLocked ==
    /\ pc = "is_effectively_locked"
    /\ value' = is_effectively_locked(call.score_diff, call.seconds_remaining)
    /\ pc' = "done"
    /\ UNCHANGED <<engine, gate, call, evaluated>>

\* a direct call of normalize_kalshi_code(code, league)
CallNormalizeKalshiCode ==
    /\ pc = "idle"
    /\ \E a \in NormalizeArgs : call' = a
    /\ pc' = "normalize_kalshi_code"
    /\ UNCHANGED <<engine, gate, value, evaluated>>

\* normalize_kalshi_code runs to its return
NormalizeKalshiCode ==
    /\ pc = "normalize_kalshi_code"
    /\ value' = normalize_kalshi_code(call.code, call.league)
    /\ pc' = "done"
    /\ UNCHANGED <<engine, gate, call, evaluated>>

\* a direct call of _parse_seconds_remaining(clock, period)
CallParseSecondsRemaining ==
    /\ pc = "idle"
    /\ \E a \in ParseArgs : call' = a
    /\ pc' = "_parse_seconds_remaining"
    /\ UNCHANGED <<engine, gate, value, evaluated>>

\* _parse_seconds_remaining runs to its return, or to the exception it lets through
ParseSecondsRemaining ==
    /\ pc = "_parse_seconds_remaining"
    /\ value' = _parse_seconds_remaining(call.clock, call.period)
    /\ pc' = "done"
    /\ UNCHANGED <<engine, gate, call, evaluated>>

\* print_and_trade evaluates a side it has the data for (display.py 154-171)
PrintAndTradeEvaluate ==
    /\ pc = "idle"
    /\ \E a \in GameArgs : args' = a
    /\ pc' = "entry_quality"
    /\ UNCHANGED <<decision, gate, direct>>

\* print_and_trade takes _NO_DATA_ENTRY for a side it has no data for
PrintAndTradeNoData ==
    /\ pc = "idle"
    /\ \E ask \in NoDataAskValues : args' = [no_data |-> TRUE, ask |-> ask]
    /\ decision' = _NO_DATA_ENTRY
    /\ pc' = "decided"
    /\ UNCHANGED <<gate, direct>>

\* print_and_trade passes the entry of the side and int(ask) to maybe_trade
\* (display.py 185-197)
PrintAndTradeSubmit ==
    /\ pc = "decided"
    /\ \E ticker \in Tickers, side \in Sides, dry_run \in BOOLEAN, client_ok \in BOOLEAN :
         order' = [ticker |-> ticker, side |-> side, entry |-> decision,
                   ask_price |-> Number(AskInt(IF "no_data" \in DOMAIN args THEN args.ask
                                                ELSE Number(args.kalshi_ask))),
                   dry_run |-> dry_run, client_ok |-> client_ok]
    /\ pc' = "maybe_trade"
    /\ UNCHANGED <<engine, result, created, _orders_placed, submitted, direct>>

\* print_and_trade is done with the side
PrintAndTradeReturn ==
    /\ pc = "returned"
    /\ args' = None
    /\ decision' = None
    /\ order' = None
    /\ result' = None
    /\ created' = <<>>
    /\ pc' = "idle"
    /\ UNCHANGED <<_orders_placed, submitted, direct>>

\* the caller of a direct call is done with the value
Forget ==
    /\ pc = "done"
    /\ call' = None
    /\ value' = None
    /\ evaluated' = <<>>
    /\ pc' = "idle"
    /\ UNCHANGED <<engine, gate>>

\* the decision engine on its own
Next == CallEntryQuality \/ EntryQuality \/ DropDecision
Spec == Init /\ [][Next]_vars

\* the decision engine called with a negative bankroll
NextBankroll == CallEntryQualityNegativeBankroll \/ EntryQuality \/ DropDecision
SpecBankroll == Init /\ [][NextBankroll]_vars

\* the order gate on its own, called with arbitrary entry dicts
NextTrade == CallMaybeTrade \/ MaybeTrade \/ TakeResult \/ ResetSession
SpecTrade == Init /\ [][NextTrade]_vars

\* the fee model on its own
NextFee == CallKalshiFee \/ KalshiFee \/ Forget
SpecFee == Init /\ [][NextFee]_vars

\* the Kelly sizer on its own
NextKelly == CallMaxKelly \/ MaxKelly \/ Forget
SpecKelly == Init /\ [][NextKelly]_vars

\* the full-Kelly wrapper on its own
NextFullKelly == CallFullKelly \/ FullKelly \/ Forget
SpecFullKelly == Init /\ [][NextFullKelly]_vars

\* the early-game gate on its own
NextLocked == CallIsEffectivelyLocked \/ IsEffectivelyLocked \/ Forget
SpecLocked == Init /\ [][NextLocked]_vars

\* the team-code translation on its own
NextTeams == CallNormalizeKalshiCode \/ NormalizeKalshiCode \/ Forget
SpecTeams == Init /\ [][NextTeams]_vars

\* a session of print_and_trade: evaluations of the sides of games, full_kelly
\* for the display, the order gate and reset_session, in any order
NextSession ==
    \/ PrintAndTradeEvaluate \/ PrintAndTradeNoData \/ EntryQuality
    \/ PrintAndTradeSubmit \/ MaybeTrade \/ PrintAndTradeReturn \/ ResetSession
    \/ CallFullKelly \/ FullKelly \/ Forget
SpecSession == Init /\ [][NextSession]_vars

\* the clock parser on its own
NextClock == CallParseSecondsRemaining \/ ParseSecondsRemaining \/ Forget
SpecClock == Init /\ [][NextClock]_vars

\* the survival model on its own
NextSurvival == CallWpSurvival \/ WpSurvival \/ Forget
SpecSurvival == Init /\ [][NextSurvival]_vars

\* ------------------------------------------------------------------------
\* Properties
\* ------------------------------------------------------------------------

\* entry_quality has returned / maybe_trade has returned
Decided  == pc = "decided"
Returned == pc = "returned"

\* the normalised price (hundredths) and the one-contract fee (cents) of the call
Price == NormalizePrice(args.kalshi_ask)
Fee   == kalshi_fee(1, args.kalshi_ask, args.maker)

\* the gate a recommendation names, "none" for the labels of the full evaluation
GateOf(d) ==
    LET w == d.recommendation.words IN
    IF w = <<"SKIP", "-", "below target zone">> THEN "price floor"
    ELSE IF w = <<"SKIP", "-", "fee exceeds profit">> THEN "fee"
    ELSE IF w = <<"SKIP", "-", "edge", "<", "min">> THEN "edge floor"
    ELSE IF w = <<"WAIT", "-", "Q", "needs", "pt lead", "have">> THEN "lock"
    ELSE "none"

ZeroSized(d) == d.dollars = 0 /\ d.contracts = 0 /\ d.ev = 0

\* the first gate whose condition holds on the decimal values of the arguments
ExactGate(a) ==
    LET price == NormalizePrice(a.kalshi_ask)
        fee   == kalshi_fee(1, a.kalshi_ask, a.maker)
    IN  IF price < MIN_PRICE THEN "price floor"
        ELSE IF 100 - price - fee <= 0 THEN "fee"
        ELSE IF a.p_current - price <= a.min_edge THEN "edge floor"
        ELSE IF a.period < 4 /\ ~is_effectively_locked(a.score_diff, a.seconds_remaining)
        THEN "lock"
        ELSE "none"

\* the first gate whose condition holds as entry_quality computes it
FiredGate(a) ==
    LET price == NormalizePrice(a.kalshi_ask)
        fee   == kalshi_fee(1, a.kalshi_ask, a.maker)
    IN  IF price < MIN_PRICE THEN "price floor"
        ELSE IF NetWin(price, fee) <= 0 THEN "fee"
        ELSE IF RawEdge(a.p_current, price) <= Hundredths(a.min_edge) THEN "edge floor"
        ELSE IF a.period < 4 /\ ~is_effectively_locked(a.score_diff, a.seconds_remaining)
        THEN "lock"
        ELSE "none"

\* C1: every decision of entry_quality whose recommendation contains SKIP or
\* WAIT has contracts = 0, dollars = 0 and ev = 0, on every return path
C1_SkipWaitZeroSized ==
    Decided /\ (Contains(decision.recommendation, "SKIP")
                  \/ Contains(decision.recommendation, "WAIT"))
      => ZeroSized(decision)

\* C2: the gates are taken in the order price floor, fee, edge floor, lock: the
\* recommendation is the tag of the earliest gate whose condition holds, and
\* always "below target zone" when the price is below MIN_PRICE/100
C2_EarliestGateTag ==
    Decided =>
      /\ GateOf(decision) = ExactGate(args)
      /\ (Price < MIN_PRICE
            => decision.recommendation.words = <<"SKIP", "-", "below target zone">>)

\* C3: between two reset_session calls at most one maybe_trade call per
\* (ticker, side) is submitted (placed or dry_run), and a call for a key
\* that was submitted returns None without calling create_order
C3_OneSubmissionPerKey ==
    /\ \A k \in Keys : submitted[k] <= 1
    /\ Returned /\ submitted[<<order.ticker, order.side>>] >= 1
         /\ ~(result # None /\ result.status \in {"placed", "dry_run"})
         => result = None /\ created = <<>>

\* C3 witness: a call that passes every guard on the entry and the ask was
\* refused because its key had been submitted
C3_DuplicateRefused ==
    /\ Returned
    /\ order.ask_price = Number(MIN_PRICE)
    /\ order.entry.contracts > 0
    /\ order.entry.raw_edge >= Hundredths(MIN_EDGE)
    /\ order.entry.survival >= Hundredths(MIN_SURVIVAL)
    /\ order.entry.score >= 500
    /\ order.entry.recommendation = Rec(<<"ENTER">>, <<>>)
    /\ submitted[<<order.ticker, order.side>>] = 1
    /\ result = None
    /\ created = <<>>

\* a maybe_trade call whose entry or ask is one of the blocked kinds of C4
BlockedOrder(o) ==
    \/ o.entry.contracts <= 0
    \/ Contains(o.entry.recommendation, "SKIP")
    \/ Contains(o.entry.recommendation, "WAIT")
    \/ (o.ask_price.is_number /\ o.ask_price.cents < MIN_PRICE)
    \/ o.entry.raw_edge < Hundredths(MIN_EDGE)
    \/ o.entry.survival < Hundredths(MIN_SURVIVAL)
    \/ o.entry.score < 500

\* C4: maybe_trade returns None, calls create_order not at all and records
\* nothing when contracts <= 0, or the recommendation contains SKIP or WAIT,
\* or ask_price < MIN_PRICE, or raw_edge < MIN_EDGE, or survival <
\* MIN_SURVIVAL, or score < 50, whatever the other fields are
C4_BlockedDecisionNoTrade ==
    Returned /\ BlockedOrder(order)
      => /\ result = None
         /\ created = <<>>
         /\ submitted[<<order.ticker, order.side>>] = 0
              => <<order.ticker, order.side>> \notin _orders_placed

\* C4 witness: a call blocked by the score alone, for a key not yet submitted
C4_ScoreAloneBlocks ==
    /\ Returned
    /\ order.entry.score = 499
    /\ order.entry.contracts > 0
    /\ order.entry.raw_edge >= Hundredths(MIN_EDGE)
    /\ order.entry.survival >= Hundredths(MIN_SURVIVAL)
    /\ order.entry.recommendation = Rec(<<"ENTER">>, <<>>)
    /\ order.ask_price = Number(MIN_PRICE)
    /\ submitted[<<order.ticker, order.side>>] = 0
    /\ result = None

\* the lock gate's WAIT names the period, the required lead and the lead held
NamesLock(d, a) ==
    /\ GateOf(d) = "lock"
    /\ d.recommendation.words[1] = "WAIT"
    /\ d.recommendation.args = <<a.period, RoundTo(a.seconds_remaining * 3, 600), a.score_diff>>

\* C5 as stated: with no earlier gate blocking and period < 4, for every
\* seconds_remaining >= 0 a score_diff below (seconds_remaining / 60) * 0.3 is
\* blocked with the WAIT naming Q<period> and the required lead, zero sized;
\* with period >= 4 the gate never blocks
C5_LockGateAsStated ==
    Decided /\ GateOf(decision) \notin {"price floor", "fee", "edge floor"} =>
      /\ (args.period < 4 /\ args.seconds_remaining >= 0
            /\ args.score_diff * 200 < args.seconds_remaining
            => NamesLock(decision, args) /\ ZeroSized(decision))
      /\ (args.period >= 4 => GateOf(decision) # "lock")

\* C5 amended: the same for seconds_remaining > 0, where the gate blocks exactly
\* when score_diff is below the required lead; with seconds_remaining <= 0 the
\* gate never blocks, whatever score_diff is; with period >= 4 it never blocks
C5_LockGate ==
    Decided /\ GateOf(decision) \notin {"price floor", "fee", "edge floor"} =>
      /\ (args.period < 4 /\ args.seconds_remaining > 0
            /\ args.score_diff * 200 < args.seconds_remaining
            => NamesLock(decision, args) /\ ZeroSized(decision))
      /\ (args.period < 4 /\ args.seconds_remaining > 0
            /\ args.score_diff * 200 >= args.seconds_remaining
            => GateOf(decision) # "lock")
      /\ (args.seconds_remaining <= 0 => GateOf(decision) # "lock")
      /\ (args.period >= 4 => GateOf(decision) # "lock")

\* C5 witness: a lead short of the required one was blocked before the final period
C5_ShortLeadBlocked ==
    /\ Decided
    /\ args.period = 3
    /\ args.seconds_remaining = 1800
    /\ args.score_diff = -3
    /\ NamesLock(decision, args)

\* C6: with no gate blocking, score >= 70 and survival >= min_survival gives
\* STRONG ENTRY; else score >= 50 and survival >= min_survival gives ENTER;
\* else survival < min_survival gives the survival WAIT; else score >= 30
\* gives MARGINAL; else SKIP
C6_LabelOrder ==
    Decided /\ GateOf(decision) = "none" =>
      LET survival == wp_survival_probability(Hundredths(args.p_current), PriceFloor(Price),
                                              args.seconds_remaining, args.score_diff)
          enough   == survival >= Hundredths(args.min_survival)
          w        == decision.recommendation.words
      IN  /\ (decision.score >= 700 /\ enough => w = <<"*", "STRONG ENTRY">>)
          /\ (decision.score < 700 /\ decision.score >= 500 /\ enough => w = <<"ENTER">>)
          /\ (~enough => w = <<"WAIT", "-", "survival", "<">>)
          /\ (decision.score < 500 /\ decision.score >= 300 /\ enough => w = <<"MARGINAL">>)
          /\ (decision.score < 300 /\ enough => w = <<"SKIP">>)

\* C6 witness: a decision past the gates with enough survival and a score
\* between 30 and 50 was labelled MARGINAL
C6_MarginalReturned ==
    /\ Decided
    /\ decision.recommendation.words = <<"MARGINAL">>
    /\ decision.score >= 300
    /\ decision.score < 500

\* C7: a decision returned by one of the four gates has dollars = contracts =
\* ev = 0, f_max = f_star = kelly_multiplier = 0, score = 0 and a recommendation
\* that starts with SKIP or WAIT and names the gate that fired
C7_GateDecisionZeroed ==
    Decided /\ FiredGate(args) # "none" =>
      /\ ZeroSized(decision)
      /\ decision.f_max = 0
      /\ decision.f_star = 0
      /\ decision.kelly_multiplier = 0
      /\ decision.score = 0
      /\ decision.recommendation.words # <<>>
      /\ decision.recommendation.words[1] \in {"SKIP", "WAIT"}
      /\ GateOf(decision) = FiredGate(args)

\* C7 witness: the fee gate returned its decision
C7_FeeGateReturned ==
    /\ Decided
    /\ FiredGate(args) = "fee"
    /\ decision.recommendation.words = <<"SKIP", "-", "fee exceeds profit">>

\* C8: a non-gated decision with f_max > 0 has dollars = min(bankroll * f_max,
\* MAX_TRADE) to the cent, contracts = floor(dollars / price), ev = (p_current *
\* net_win - (1 - p_current) * price) * contracts to the cent, dollars <=
\* MAX_TRADE and contracts * price <= dollars; with f_max = 0 (as for an invalid
\* Kelly result) dollars = contracts = ev = 0
C8_Sizing ==
    Decided /\ GateOf(decision) = "none" =>
      IF decision.f_max > 0
      THEN LET dollars  == RoundTo(Min(args.bankroll * (decision.f_max \div Limb),
                                       MAX_TRADE * Limb), Limb)
               per_unit == args.p_current * (100 - Price - Fee)
                             - (100 - args.p_current) * Price       \* 1e-2 cent
           IN  /\ decision.dollars = dollars
               /\ decision.contracts = dollars \div Price
               /\ Abs(100 * decision.ev - per_unit * decision.contracts) <= 50
               /\ decision.dollars <= MAX_TRADE
               /\ decision.contracts * Price <= decision.dollars
      ELSE ZeroSized(decision)

\* C9: every decision has 0 <= score <= 100; past the gates each of the four
\* sub-scores lies in [0, 1] and the score is 100 * (0.30 * edge + 0.40 *
\* survival + 0.20 * velocity + 0.10 * kelly), to one decimal
C9_ScoreRange ==
    Decided =>
      /\ decision.score >= 0
      /\ decision.score <= 1000
      /\ GateOf(decision) = "none" =>
           LET net_win  == NetWin(Price, Fee)
               raw_edge == RawEdge(args.p_current, Price)
               survival == wp_survival_probability(Hundredths(args.p_current),
                               PriceFloor(Price), args.seconds_remaining, args.score_diff)
               vel_norm == Min(One, DivNat(3600, Max(args.seconds_remaining, 60)))
               sub      == SubScores(raw_edge, survival, vel_norm,
                                     KellyC(args.p_current, net_win, raw_edge, Price),
                                     args.min_survival)
               weighted == Mul(30000000, sub.edge) + Mul(40000000, sub.survival)
                             + Mul(20000000, sub.velocity) + Mul(10000000, sub.kelly)
           IN  /\ \A x \in {sub.edge, sub.survival, sub.velocity, sub.kelly} :
                     0 <= x /\ x <= One
               /\ Abs(decision.score * 10^5 - weighted) <= 5 * 10^4

\* C9 witness: a decision past the gates with the top score of 100
C9_TopScore ==
    /\ Decided
    /\ GateOf(decision) = "none"
    /\ decision.score = 1000

\* C10: with the price-floor and fee gates passed, p_current - price <=
\* min_edge (equality included) is blocked by the edge gate with a SKIP and
\* zero contracts, and p_current - price > min_edge never is
C10_EdgeFloor ==
    Decided /\ Price >= MIN_PRICE /\ 100 - Price - Fee > 0 =>
      /\ (args.p_current - Price <= args.min_edge
            => /\ GateOf(decision) = "edge floor"
               /\ decision.recommendation.words[1] = "SKIP"
               /\ decision.contracts = 0)
      /\ (args.p_current - Price > args.min_edge => GateOf(decision) # "edge floor")
\* the keys of the dict entry_quality documents (entry.py 116-120)
EntryDecisionKeys ==
    {"valid", "score", "recommendation", "raw_edge", "survival", "vol_remaining",
     "velocity", "f_max", "f_star", "kelly_multiplier", "dollars", "contracts", "ev"}

\* C11: every return path of entry_quality, gate blocks and full evaluation,
\* also with an invalid Kelly result, returns a dict with exactly the thirteen
\* documented keys, each holding a value (a boolean, a string, a number)
C11_FullyPopulated ==
    Decided =>
      /\ DOMAIN decision = EntryDecisionKeys
      /\ decision.valid \in BOOLEAN
      /\ decision.recommendation.words # <<>>
      /\ \A k \in EntryDecisionKeys \ {"valid", "recommendation"} : decision[k] \in Int

\* a full evaluation whose Kelly result was invalid (f_star < 0) has returned
C11_InvalidKellyReturned ==
    /\ Decided
    /\ GateOf(decision) = "none"
    /\ decision.f_star < 0
    /\ decision.f_max = 0
    /\ DOMAIN decision = EntryDecisionKeys

\* C20: entry_quality never raises for arguments in the documented ranges
\* (p_current in (0,1), price 1..99 cents or a decimal in (0,1),
\* seconds_remaining >= 0, period >= 0, bankroll > 0, min_edge and
\* min_survival in [0,1])
C20_NeverRaises ==
    pc # "raised"

\* kalshi_fee has returned to a direct caller
FeeDone == pc = "done" /\ call.fn = "kalshi_fee"

\* the price of the call is a two-decimal number given in whole cents / as a decimal
InCents   == call.price.off = 0 /\ call.price.number > 100
AsDecimal == call.price.off = 0 /\ call.price.number < 100

\* C12: for every price of c whole cents, c in 1..99, every contract count and
\* either role, kalshi_fee(contracts, c) = kalshi_fee(contracts, c/100)
C12_CentsEqualsDecimal ==
    FeeDone /\ call.price.off = 0 /\ call.price.number \in {c * 100 : c \in CentValues}
      => value = kalshi_fee(call.contracts, call.price.number \div 100, call.maker)

\* rate * contracts * P * (1 - P) at the two-decimal number of the call, in units
\* of 1e-6 cent, and the side on which the raw value of the call lies from it
RawFee ==
    (IF call.maker THEN _MAKER_RATE ELSE _TAKER_RATE) * call.contracts
      * NormalizePrice(call.price.number) * (100 - NormalizePrice(call.price.number))
RawSide == Sign(call.contracts * call.price.off * (100 - 2 * call.price.number))

\* C13: kalshi_fee returns the smallest whole-cent amount that is not below
\* rate * contracts * P * (1 - P): never below the raw value, less than one
\* cent above it, and 0 when contracts = 0
C13_CeilingToCent ==
    FeeDone =>
      /\ RawSide > 0  => value * 10^6 > RawFee  /\ value * 10^6 - RawFee <= 10^6
      /\ RawSide <= 0 => value * 10^6 >= RawFee /\ value * 10^6 - RawFee < 10^6
      /\ call.contracts = 0 => value = 0

\* one taker contract at 82 cents: raw 1.0332 cents, fee 2 cents
C13_FeeRoundedUp ==
    /\ FeeDone
    /\ call.contracts = 1 /\ call.price = PriceArg(8200, 0) /\ ~call.maker
    /\ RawFee = 1033200
    /\ value = 2

\* C14: for every normalized price P in (0,1), every contract count and either
\* role, kalshi_fee(contracts, P) = kalshi_fee(contracts, 1 - P)
C14_Symmetric ==
    FeeDone /\ AsDecimal
      => value = FeeOf(call.contracts, Complement(call.price.number), call.maker)

\* the fee for the same contracts and role at the decimal price q/100
FeeAt(q) == kalshi_fee(call.contracts, q, call.maker)

\* the fee does not decrease up to 0.5 and does not increase from 0.5 on
FeeRisesThenFalls ==
    LET P == NormalizePrice(call.price.number) IN
    \A q \in CentValues :
      /\ (P <= q /\ q <= 50 => value <= FeeAt(q))
      /\ (50 <= q /\ q <= P => value <= FeeAt(q))
      /\ (q <= P /\ P <= 50 => FeeAt(q) <= value)
      /\ (50 <= P /\ P <= q => FeeAt(q) <= value)

\* C15 as stated: for a positive contract count the fee rises up to 0.5 and
\* falls from there, with a single maximum at 0.5, so that the fee at 99 cents
\* is below the fee at 75 cents and the fee at 1 cent below the fee at 50 cents
C15_SingleMaximum ==
    FeeDone /\ AsDecimal /\ call.contracts > 0 =>
      /\ FeeRisesThenFalls
      /\ call.price.number # 50 => value < FeeAt(50)
      /\ call.price.number = 99 => value < FeeAt(75)
      /\ call.price.number = 1  => value < FeeAt(50)

\* C15, amended: for every contract count the fee never decreases up to 0.5
\* and never increases from 0.5 on, and the fee at 0.5 is a maximum (shared
\* with other prices where rounding up to the cent levels them)
C15_RisesThenFalls ==
    FeeDone /\ call.price.off = 0 /\ NormalizePrice(call.price.number) \in CentValues =>
      /\ FeeRisesThenFalls
      /\ value <= FeeAt(50)

\* 100 taker contracts at 0.99: 7 cents, below the fee at 0.75 and at 0.50
C15_LowFeeAtExtreme ==
    /\ FeeDone /\ AsDecimal
    /\ call.contracts = 100 /\ call.price.number = 99 /\ ~call.maker
    /\ value = 7
    /\ value < FeeAt(75) /\ FeeAt(75) < FeeAt(50)

\* max_kelly_for_drawdown_constraint has returned to a direct caller
KellyDone == pc = "done" /\ call.fn = "max_kelly_for_drawdown_constraint"

\* C16: every valid result of max_kelly_for_drawdown_constraint has
\* 0 <= f_max <= f_star and 0 <= kelly_multiplier <= 1 in the values it
\* returns, rounded to 4 decimals
C16_FractionBounds ==
    KellyDone /\ value.valid =>
      /\ 0 <= value.f_max /\ value.f_max <= value.f_star
      /\ 0 <= value.kelly_multiplier /\ value.kelly_multiplier <= One

\* the ruin probability _drawdown_prob gives at the returned f_max
RuinAtReturned == _drawdown_prob(call.p, call.b, value.f_max, call.D, call.n_bets)

\* C17: for every valid result the ruin probability at the returned f_max is
\* at most alpha = 1 - confidence; a result with kelly_multiplier 1.0 and
\* reason "full Kelly satisfies constraint" has f_max = f_star, a constrained
\* one has f_max below f_star, and "no solution" is invalid with f_max = 0
C17_RuinWithinAlpha ==
    KellyDone =>
      /\ value.valid => RuinAtReturned <= One - call.confidence
      /\ value.reason = "full Kelly satisfies constraint"
            => value.f_max = value.f_star /\ value.kelly_multiplier = One
      /\ value.reason = "no solution" => ~value.valid /\ value.f_max = 0

\* b * p - (1 - p), the sign of f_star; exact for the arguments called with
Edge == Mul(call.b, call.p) - (One - call.p)

\* C18: the result is invalid with reason "no edge", f_max = 0 and
\* kelly_multiplier = 0 exactly when f_star = (b*p - (1-p)) / b <= 0, and then
\* neither _drawdown_prob nor brentq has been evaluated
C18_NoEdgeExactly ==
    KellyDone =>
      /\ Edge <= 0 <=> value.reason = "no edge"
      /\ value.reason = "no edge"
            => /\ ~value.valid
               /\ value.f_max = 0
               /\ value.kelly_multiplier = 0
               /\ evaluated = <<>>

\* wp_survival_probability has returned to a direct caller
SurvivalDone == pc = "done" /\ call.fn = "wp_survival_probability"

\* 1.0 if p_current >= p_floor, else 0.0
BinaryRule == IF call.p_current >= call.p_floor THEN One ELSE 0

\* C19: wp_survival_probability returns a value in [0,1]; with
\* seconds_remaining <= 0, and with seconds_remaining > 0 and a volatility
\* below 1e-6 (p_current 0 or 1), it returns exactly 1.0 if
\* p_current >= p_floor and exactly 0.0 otherwise, whatever score_diff is
C19_BinaryWhenDegenerate ==
    SurvivalDone =>
      /\ 0 <= value /\ value <= One
      /\ (call.seconds_remaining <= 0 \/ call.p_current \in {0, One}) => value = BinaryRule

\* C19 witness: time left, p_current = p_floor = 1.0 (volatility 0), result 1.0
C19_DegenerateVolatility ==
    /\ SurvivalDone
    /\ call.seconds_remaining > 0
    /\ call.p_current = One
    /\ call.p_floor = One
    /\ value = One

\* C21: a negative bankroll passed to entry_quality is rejected with a
\* validation error; the call never returns a decision record with sizing fields
C21_NegativeBankrollRejected ==
    pc \in {"decided", "raised"} /\ args.bankroll < 0 => Raises(decision)

\* full_kelly has returned to a direct caller
FullKellyDone == pc = "done" /\ call.fn = "full_kelly"

\* of the full_kelly call: the price in hundredths, net_win in hundredths, and
\* (p * net_win - (1 - p) * price) in units of 1e-4, which is 100 * net_win * f_star
KellyPrice     == NormalizePrice(call.kalshi_ask.v)
KellyNetWin    == 100 - KellyPrice - kalshi_fee(1, call.kalshi_ask.v, call.maker)
KellyAdvantage == call.true_probability.v * KellyNetWin
                    - (100 - call.true_probability.v) * KellyPrice

\* C22: a valid result of full_kelly has dollars = bankroll * f_star to the
\* cent (no MAX_TRADE cap), contracts = floor(dollars / price),
\* ev = (p * net_win - (1 - p) * price) * contracts to the cent and
\* dollars <= bankroll; an invalid result has contracts = dollars = ev = 0
C22_FullKellySizing ==
    FullKellyDone =>
      IF value.valid
      THEN /\ Abs(value.dollars * 100 * KellyNetWin - call.bankroll * KellyAdvantage)
                <= 50 * KellyNetWin
           /\ value.contracts = value.dollars \div KellyPrice
           /\ Abs(value.ev * 100 - KellyAdvantage * value.contracts) <= 50
           /\ value.dollars <= call.bankroll
      ELSE value.contracts = 0 /\ value.dollars = 0 /\ value.ev = 0

\* is_effectively_locked has returned to a direct caller
LockedDone == pc = "done" /\ call.fn = "is_effectively_locked"

\* C24: is_effectively_locked returns True exactly when seconds_remaining <= 0
\* or score_diff >= 0.3 * (seconds_remaining / 60), that is
\* 600 * score_diff >= 3 * seconds_remaining: always at zero seconds, and with
\* time left also for a lead equal to the required one
C24_LockedExactly ==
    LockedDone =>
      (value <=> (call.seconds_remaining <= 0
                    \/ 600 * call.score_diff >= 3 * call.seconds_remaining))

\* C24 witness: time left and a lead exactly equal to the required lead, locked
C24_TieLocked ==
    /\ LockedDone
    /\ call.seconds_remaining > 0
    /\ 600 * call.score_diff = 3 * call.seconds_remaining
    /\ value = TRUE

\* normalize_kalshi_code has returned to a direct caller
NormalizeDone == pc = "done" /\ call.fn = "normalize_kalshi_code"

\* the translations the claim names: <<league, Kalshi code, ESPN code>>
NamedTranslations ==
    { <<"nba", "BRK", "BKN">>, <<"nba", "GS", "GSW">>, <<"nba", "NY", "NYK">>,
      <<"ncaabbm", "CLT", "CHAR">>, <<"ncaabbm", "BOIS", "BSU">> }

\* C25: normalize_kalshi_code returns an upper-case code whatever the case of
\* its argument; BRK, GS, NY (league nba) and CLT, BOIS (league ncaabbm) come
\* back as BKN, GSW, NYK, CHAR, BSU; a code of the league's map comes back as
\* its ESPN code, and any other code unchanged
C25_KnownCodesTranslated ==
    NormalizeDone =>
      /\ value.lower_at = {}
      /\ \A t \in NamedTranslations :
            call.league = t[1] /\ call.code.upper = t[2] => value.upper = t[3]
      /\ \A kv \in _league_map(call.league) :
            call.code.upper = kv[1] => value.upper = kv[2]
      /\ (\A kv \in _league_map(call.league) : call.code.upper # kv[1])
            /\ (\A t \in NamedTranslations :
                   ~(call.league = t[1] /\ call.code.upper = t[2]))
            => value.upper = call.code.upper

\* _parse_seconds_remaining has returned to a direct caller, or raised
ParseDone == pc = "done" /\ call.fn = "_parse_seconds_remaining"

\* the clock is MM:SS, digits on both sides of one colon / is a number of seconds
IsMinutesSeconds(clock) ==
    /\ Cardinality(Positions(clock, ":")) = 1
    /\ IsDigits(SplitHead(clock))
    /\ IsDigits(SplitNext(clock))
IsSecondsOnly(clock) == IsDigits(clock)

\* the seconds of the quarters still to be played after this one
QuartersLeftSeconds(period) == 720 * (IF period >= 4 THEN 0 ELSE 4 - period)

\* C26: _parse_seconds_remaining(clock, period) returns the seconds of an MM:SS
\* or seconds-only clock plus 720 seconds for each of the max(0, 4 - period)
\* quarters still to be played, and for any other clock it returns without
\* raising
C26_ClockSeconds ==
    ParseDone =>
        IF IsMinutesSeconds(call.clock)
        THEN value = Given(60 * DigitsValue(SplitHead(call.clock))
                           + DigitsValue(SplitNext(call.clock))
                           + QuartersLeftSeconds(call.period))
        ELSE IF IsSecondsOnly(call.clock)
        THEN value = Given(DigitsValue(call.clock) + QuartersLeftSeconds(call.period))
        ELSE ~Raises(value)

\* the part of C26 that holds: an MM:SS or seconds-only clock gives its
\* seconds plus those of the quarters still to be played
C26_ParsedClocks ==
    ParseDone /\ (IsMinutesSeconds(call.clock) \/ IsSecondsOnly(call.clock)) =>
        /\ value.given
        /\ value.v = QuartersLeftSeconds(call.period)
                     + (IF IsSecondsOnly(call.clock) THEN DigitsValue(call.clock)
                        ELSE 60 * DigitsValue(SplitHead(call.clock))
                             + DigitsValue(SplitNext(call.clock)))

\* the result is that of a submission that went through
Submitted(res) == res # None /\ res.status \in {"placed", "dry_run"}

\* C27: a key is in _orders_placed exactly when a submission for it returned
\* placed or dry_run since the last reset_session; the tracker changes only
\* by gaining the key of such a submission or by being emptied by
\* reset_session, so a blocked call and a failed create_order leave it as it was
C27_TrackerFollowsSubmissions ==
    [][ /\ \A k \in Keys : k \in _orders_placed' <=> submitted'[k] > 0
        /\ pc = "maybe_trade" /\ ~Submitted(result') => _orders_placed' = _orders_placed
        /\ pc = "maybe_trade" /\ Submitted(result')
             => _orders_placed' = _orders_placed \cup {<<order.ticker, order.side>>}
        /\ pc = "idle" /\ pc' = "idle" => _orders_placed' = {}
        /\ pc \notin {"maybe_trade", "idle"} \/ pc' = "maybe_trade"
             => _orders_placed' = _orders_placed ]_vars

\* C27 witness: create_order raised for a key while another key was recorded,
\* and the failed key is not in the tracker
C27_FailedKeyStaysFree ==
    /\ Returned
    /\ result # None
    /\ result.status = "failed"
    /\ <<order.ticker, order.side>> \notin _orders_placed
    /\ _orders_placed # {}

\* kalshi_ask is a price in whole cents c, 1..99 (carried times 100)
WholeCents(kalshi_ask) == kalshi_ask % 100 = 0 /\ kalshi_ask \div 100 \in 1..99

\* C29: entry_quality called with a price of c whole cents, 1..99, returns the
\* decision it returns for the decimal c/100 and the same other arguments
C29_CentsDecisionEqualsDecimal ==
    pc \in {"decided", "raised"} /\ WholeCents(args.kalshi_ask) =>
        decision = entry_quality(args.p_current, args.kalshi_ask \div 100,
                                 args.seconds_remaining, args.score_diff, args.period,
                                 args.bankroll, args.maker, args.min_edge,
                                 args.min_survival)

\* the part of C29 that holds: from 2 cents on the two decisions are the same
C29_FromTwoCents ==
    pc \in {"decided", "raised"} /\ WholeCents(args.kalshi_ask) /\ args.kalshi_ask > 100 =>
        decision = entry_quality(args.p_current, args.kalshi_ask \div 100,
                                 args.seconds_remaining, args.score_diff, args.period,
                                 args.bankroll, args.maker, args.min_edge,
                                 args.min_survival)

\* C30: the velocity of a decision is min(1, 3600 / max(seconds_remaining, 60))
\* to three decimals: it lies in (0, 1], does not rise with seconds_remaining,
\* is exactly 1 up to 3600 seconds and 3600 / seconds_remaining beyond, and
\* past the gates with at most 2880 seconds remaining it contributes 20 points
\* to the score
C30_Velocity ==
    Decided =>
      LET seconds == args.seconds_remaining IN
      /\ decision.velocity = RoundTo(VelNorm(seconds), 10^5) * 10^5
      /\ 0 < decision.velocity /\ decision.velocity <= One
      /\ seconds <= 3600 => decision.velocity = One
      /\ seconds > 3600 /\ seconds % 3600 = 0
           => decision.velocity * (seconds \div 3600) = One
      /\ \A later \in SecondsRemainingValues :
             later >= seconds => VelNorm(later) <= VelNorm(seconds)
      /\ GateOf(decision) = "none" /\ seconds <= 2880 =>
           LET net_win  == NetWin(Price, Fee)
               raw_edge == RawEdge(args.p_current, Price)
               survival == wp_survival_probability(Hundredths(args.p_current),
                               PriceFloor(Price), seconds, args.score_diff)
               sub      == SubScores(raw_edge, survival, 0,
                                     KellyC(args.p_current, net_win, raw_edge, Price),
                                     args.min_survival)
               others   == Mul(30000000, sub.edge) + Mul(40000000, sub.survival)
                             + Mul(10000000, sub.kelly)
           IN  Abs(decision.score * 10^5 - (others + 20000000)) <= 5 * 10^4

\* C30 witness: a decision past the gates at the start of a regulation game,
\* 2880 seconds remaining, with velocity 1
C30_RegulationVelocity ==
    /\ Decided
    /\ GateOf(decision) = "none"
    /\ args.seconds_remaining = 2880
    /\ decision.velocity = One

\* C28: whenever maybe_trade, called by print_and_trade with a decision of
\* entry_quality at the default thresholds and the ask of that decision,
\* submits (placed or dry_run), the decision is an ENTER or STRONG ENTRY with
\* contracts > 0, score >= 50 and survival >= MIN_SURVIVAL, and contracts *
\* price is at most MAX_TRADE; no other decision and no no-data entry is submitted
C28_OnlyEntriesSubmitted ==
    Returned /\ Submitted(result) =>
      /\ "no_data" \notin DOMAIN args
      /\ order.entry = decision
      /\ order.ask_price = Number(args.kalshi_ask \div 100)
      /\ decision.recommendation \in {Rec(<<"ENTER">>, <<>>), Rec(<<"*", "STRONG ENTRY">>, <<>>)}
      /\ decision.contracts > 0
      /\ decision.score >= 500
      /\ decision.survival >= Hundredths(MIN_SURVIVAL)
      /\ result.contracts = decision.contracts
      /\ result.contracts * result.price <= MAX_TRADE

\* C28 witness: a STRONG ENTRY decision was placed at its ask
C28_StrongEntryPlaced ==
    /\ Returned
    /\ Submitted(result)
    /\ result.status = "placed"
    /\ decision.recommendation = Rec(<<"*", "STRONG ENTRY">>, <<>>)
    /\ result.price = args.kalshi_ask \div 100

\* a WAIT decision with contracts went to maybe_trade and was refused
C28_WaitRefused ==
    /\ Returned
    /\ Contains(decision.recommendation, "WAIT")
    /\ decision.contracts > 0
    /\ order.ask_price.cents >= MIN_PRICE
    /\ result = None

\* an ENTER decision was submitted in a dry run
C28_EnterDryRun ==
    /\ Returned
    /\ decision.recommendation = Rec(<<"ENTER">>, <<>>)
    /\ Submitted(result)
    /\ result.status = "dry_run"

\* C23: an evaluation of entry_quality or full_kelly leaves the session
\* tracker and everything else of the order gate as it was and returns the
\* value its arguments determine, whatever the tracker holds; maybe_trade and
\* reset_session leave the arguments and the decision of the engine as they were
C23_EngineStateless ==
    [][ /\ pc \in {"entry_quality", "full_kelly"} => gate' = gate
        /\ pc = "entry_quality" =>
              decision' = entry_quality(args.p_current, args.kalshi_ask,
                                        args.seconds_remaining, args.score_diff,
                                        args.period, args.bankroll, args.maker,
                                        args.min_edge, args.min_survival)
        /\ pc = "full_kelly" =>
              value' = full_kelly(call.true_probability, call.kalshi_ask,
                                  call.bankroll, call.maker)
        /\ pc = "maybe_trade" \/ _orders_placed' # _orders_placed => engine' = engine ]_vars

\* C23 witness: entry_quality returned a sized decision while the tracker
\* held the keys of earlier submissions
C23_EvaluatedWithOrdersPlaced ==
    /\ Decided
    /\ "no_data" \notin DOMAIN args
    /\ decision.contracts > 0
    /\ Cardinality(_orders_placed) >= 2

=============================================================================
